---------------------------- MODULE Spec2Model ----------------------------
(***************************************************************************)
(* Chat statistics generator: parse_chat, filter_last_365_days,            *)
(* normalize_name, calculate_stats and the part of main that runs them and *)
(* serialises the result (generate_stats_v2.py; generate_stats.py and      *)
(* generate_stats_v3.py carry the same core).                              *)
(*                                                                         *)
(* Text is a sequence of one-character strings.  Characters that have no   *)
(* printable form are named: "LRM" is U+200E, "RLM" U+200F, "LRE" U+202A,  *)
(* "RLE" U+202B, "PDF" U+202C, "LRO" U+202D, "RLO" U+202E, "TAB" U+0009,   *)
(* "CR" U+000D, "LF" U+000A.                                               *)
(***************************************************************************)
EXTENDS Integers, Sequences, FiniteSets, TLC

(***************************************************************************)
(* Bounds of the model.                                                    *)
(***************************************************************************)
MaxLines == 3

MaxMsgs == 3

(***************************************************************************)
(* str helpers (Python built-ins used by the program).                     *)
(***************************************************************************)
UpperSeq == << "A","B","C","D","E","F","G","H","I","J","K","L","M",
               "N","O","P","Q","R","S","T","U","V","W","X","Y","Z" >>

LowerSeq == << "a","b","c","d","e","f","g","h","i","j","k","l","m",
               "n","o","p","q","r","s","t","u","v","w","x","y","z" >>

DigitSeq == << "0","1","2","3","4","5","6","7","8","9" >>

Whitespace == {" ", "TAB", "CR", "LF"}

\* the characters that parse_chat strips with lstrip
Marks == {"LRM", "RLM", "LRE", "RLE", "PDF", "LRO", "RLO"}

IsDigit(c) == \E i \in 1..10 : DigitSeq[i] = c

IsSpace(c) == c \in Whitespace

LowerChar(c) ==
    IF \E i \in 1..26 : UpperSeq[i] = c
    THEN LowerSeq[CHOOSE i \in 1..26 : UpperSeq[i] = c]
    ELSE c

UpperChar(c) ==
    IF \E i \in 1..26 : LowerSeq[i] = c
    THEN UpperSeq[CHOOSE i \in 1..26 : LowerSeq[i] = c]
    ELSE c

\* str.lower()
Lower(s) == [i \in 1..Len(s) |-> LowerChar(s[i])]

\* str.upper()
Upper(s) == [i \in 1..Len(s) |-> UpperChar(s[i])]

RECURSIVE LStrip(_, _)
\* str.lstrip(chars)
LStrip(s, chars) ==
    IF s # << >> /\ Head(s) \in chars THEN LStrip(Tail(s), chars) ELSE s

RECURSIVE RStrip(_, _)
\* str.rstrip(chars)
RStrip(s, chars) ==
    IF s # << >> /\ s[Len(s)] \in chars
    THEN RStrip(SubSeq(s, 1, Len(s) - 1), chars)
    ELSE s

\* Strip that trims nothing
StripNothing(s) == s

\* str.strip()
Strip(s) == RStrip(LStrip(s, Whitespace), Whitespace)

\* sub in s
Contains(sub, s) ==
    \E i \in 1..(Len(s) - Len(sub) + 1) : SubSeq(s, i, i + Len(sub) - 1) = sub

\* s.startswith(p)
StartsWith(s, p) == Len(s) >= Len(p) /\ SubSeq(s, 1, Len(p)) = p

DigitVal(c) == (CHOOSE i \in 1..10 : DigitSeq[i] = c) - 1

RECURSIVE ToInt(_)
\* int(s) for a string of decimal digits
ToInt(s) ==
    IF s = << >> THEN 0
    ELSE 10 * ToInt(SubSeq(s, 1, Len(s) - 1)) + DigitVal(s[Len(s)])

RECURSIVE Split(_, _)
\* s.split(sep) for a one-character separator
Split(s, sep) ==
    IF \E i \in 1..Len(s) : s[i] = sep
    THEN LET k == CHOOSE i \in 1..Len(s) :
                      s[i] = sep /\ \A j \in 1..(i - 1) : s[j] # sep
         IN  << SubSeq(s, 1, k - 1) >> \o Split(SubSeq(s, k + 1, Len(s)), sep)
    ELSE << s >>

(***************************************************************************)
(* datetime (the standard library's proleptic Gregorian calendar).         *)
(***************************************************************************)
IsLeap(y) == y % 4 = 0 /\ (y % 100 # 0 \/ y % 400 = 0)

DaysInMonth(y, m) ==
    IF m = 2 THEN (IF IsLeap(y) THEN 29 ELSE 28)
    ELSE IF m \in {4, 6, 9, 11} THEN 30 ELSE 31

\* datetime(y, mo, d, h, mi, s) does not raise ValueError
ValidDateTime(y, mo, d, h, mi, s) ==
    /\ y \in 1..9999
    /\ mo \in 1..12
    /\ d >= 1 /\ d <= DaysInMonth(y, mo)
    /\ h \in 0..23
    /\ mi \in 0..59
    /\ s \in 0..59

DateTime(y, mo, d, h, mi, s) ==
    [year |-> y, month |-> mo, day |-> d, hour |-> h, minute |-> mi, second |-> s]

RECURSIVE DaysBeforeMonth(_, _)
DaysBeforeMonth(y, m) ==
    IF m = 1 THEN 0 ELSE DaysBeforeMonth(y, m - 1) + DaysInMonth(y, m - 1)

\* date.toordinal(): 1 for 0001-01-01
ToOrdinal(dt) ==
    LET y == dt.year - 1
    IN  y * 365 + (y \div 4) - (y \div 100) + (y \div 400)
        + DaysBeforeMonth(dt.year, dt.month) + dt.day

\* date.weekday(): Monday = 0
Weekday(dt) == (ToOrdinal(dt) + 6) % 7

SecondOfDay(dt) == dt.hour * 3600 + dt.minute * 60 + dt.second

\* (a - b).total_seconds()
TotalSeconds(a, b) ==
    (ToOrdinal(a) - ToOrdinal(b)) * 86400 + SecondOfDay(a) - SecondOfDay(b)

\* a <= b on datetimes
DateLE(a, b) ==
    \/ ToOrdinal(a) < ToOrdinal(b)
    \/ ToOrdinal(a) = ToOrdinal(b) /\ SecondOfDay(a) <= SecondOfDay(b)

\* strftime('%Y-%m-%d'): the calendar day, without the time of day
DateKey(dt) == << dt.year, dt.month, dt.day >>

\* strftime('%Y-%m')
MonthKey(dt) == << dt.year, dt.month >>

(***************************************************************************)
(* The message-start pattern of parse_chat, matched as re.match does, with *)
(* re.IGNORECASE.  In order: an optional U+200E; "["; group 1, the date:   *)
(* one or two digits, "/", one or two digits, "/", two digits; ",";        *)
(* optional whitespace; group 2, the time: one or two digits, ":", two     *)
(* digits, ":", two digits, optional whitespace, an optional AM or PM;     *)
(* "]"; optional whitespace; group 3, the sender: one or more characters   *)
(* other than ":"; ":"; optional whitespace; group 4, the content: the     *)
(* rest of the line.  Every quantifier is greedy; the places where the     *)
(* engine backtracks are noted.  A position of 0 means the match failed.   *)
(***************************************************************************)
At(s, i) == IF i >= 1 /\ i <= Len(s) THEN s[i] ELSE "EOL"

RECURSIVE SkipSpaces(_, _)
\* a run of whitespace from position i: the first position that holds no whitespace
SkipSpaces(s, i) ==
    IF i >= 1 /\ i <= Len(s) /\ IsSpace(s[i]) THEN SkipSpaces(s, i + 1) ELSE i

\* one or two digits from position i, followed by the character sep: the position of
\* sep.  Two digits are tried first, then one.
Digits12(s, i, sep) ==
    IF i = 0 THEN 0
    ELSE IF IsDigit(At(s, i)) /\ IsDigit(At(s, i + 1)) /\ At(s, i + 2) = sep
         THEN i + 2
    ELSE IF IsDigit(At(s, i)) /\ At(s, i + 1) = sep THEN i + 1
    ELSE 0

\* two digits from position i, followed by the character sep: the position of sep
Digits2(s, i, sep) ==
    IF i # 0 /\ IsDigit(At(s, i)) /\ IsDigit(At(s, i + 1)) /\ At(s, i + 2) = sep
    THEN i + 2
    ELSE 0

\* AM or PM at position i, case-insensitively
IsMeridiemAt(s, i) ==
    LowerChar(At(s, i)) \in {"a", "p"} /\ LowerChar(At(s, i + 1)) = "m"

\* the position of the first character c at or after position i, 0 when
\* there is none
FirstOf(s, i, c) ==
    IF \E k \in i..Len(s) : s[k] = c
    THEN CHOOSE k \in i..Len(s) : s[k] = c /\ \A j \in i..(k - 1) : s[j] # c
    ELSE 0

NoMatch == [ok |-> FALSE, date_str |-> << >>, time_str |-> << >>,
            sender |-> << >>, content |-> << >>]

\* body(v), with v evaluated once: the value of v is bound before body reads
\* it, however often body reads it
WithVal(v, body(_)) == CHOOSE r \in {body(x) : x \in {v}} : TRUE

\* after "[": the date, ",", whitespace; the position where the time starts
DateEnd(s, dstart) ==
    WithVal(Digits12(s, dstart, "/"), LAMBDA slash1 :
    WithVal(IF slash1 = 0 THEN 0 ELSE Digits12(s, slash1 + 1, "/"), LAMBDA slash2 :
    WithVal(IF slash2 = 0 THEN 0 ELSE Digits2(s, slash2 + 1, ","), LAMBDA comma :
        IF comma = 0 THEN 0 ELSE SkipSpaces(s, comma + 1))))

\* from the start of the time: the time, whitespace, an optional meridiem;
\* the position of "]".  Giving whitespace back never helps, since neither
\* the meridiem nor "]" starts with whitespace.
TimeEnd(s, tstart) ==
    WithVal(Digits12(s, tstart, ":"), LAMBDA colon1 :
    WithVal(IF colon1 = 0 THEN 0 ELSE Digits2(s, colon1 + 1, ":"), LAMBDA colon2 :
    WithVal(IF colon2 # 0 /\ IsDigit(At(s, colon2 + 1)) /\ IsDigit(At(s, colon2 + 2))
            THEN SkipSpaces(s, colon2 + 3) ELSE 0, LAMBDA aftersp :
        IF aftersp = 0 THEN 0
        ELSE IF IsMeridiemAt(s, aftersp) /\ At(s, aftersp + 2) = "]"
             THEN aftersp + 2
        ELSE IF At(s, aftersp) = "]" THEN aftersp
        ELSE 0)))

\* after "]": whitespace, the sender, ":"; the position where the sender
\* starts.  When ":" follows the whitespace at once, the whitespace gives one
\* character back to the sender.
SenderStart(s, close) ==
    WithVal(SkipSpaces(s, close + 1), LAMBDA sp :
    WithVal(FirstOf(s, sp, ":"), LAMBDA col :
        IF col = 0 THEN 0
        ELSE IF col > sp THEN sp
        ELSE IF sp > close + 1 THEN sp - 1
        ELSE 0))

\* message_pattern.match(s): the four groups, or NoMatch
MessagePattern(s) ==
    WithVal(IF At(s, 1) = "LRM" THEN 2 ELSE 1, LAMBDA p0 :
    WithVal(IF At(s, p0) = "[" THEN DateEnd(s, p0 + 1) ELSE 0, LAMBDA tstart :
    WithVal(IF tstart = 0 THEN 0 ELSE TimeEnd(s, tstart), LAMBDA close :
    WithVal(IF close = 0 THEN 0 ELSE SenderStart(s, close), LAMBDA sstart :
    WithVal(IF sstart = 0 THEN 0 ELSE FirstOf(s, sstart, ":"), LAMBDA col :
        IF sstart = 0 THEN NoMatch
        ELSE [ok       |-> TRUE,
              date_str |-> SubSeq(s, p0 + 1, FirstOf(s, p0 + 1, ",") - 1),
              time_str |-> SubSeq(s, tstart, close - 1),
              sender   |-> SubSeq(s, sstart, col - 1),
              content  |-> SubSeq(s, SkipSpaces(s, col + 1), Len(s))])))))

\* re.match of the time pattern (hours, minutes, seconds, optional AM or PM)
\* on a time_str that message_pattern has matched; ampm is << >> for None
TimeMatch(time_str) ==
    LET colon1  == IF IsDigit(At(time_str, 2)) THEN 3 ELSE 2
        aftersp == SkipSpaces(time_str, colon1 + 6)
    IN  [hours   |-> SubSeq(time_str, 1, colon1 - 1),
         minutes |-> SubSeq(time_str, colon1 + 1, colon1 + 2),
         seconds |-> SubSeq(time_str, colon1 + 4, colon1 + 5),
         ampm    |-> IF IsMeridiemAt(time_str, aftersp)
                     THEN SubSeq(time_str, aftersp, aftersp + 1)
                     ELSE << >>]

(***************************************************************************)
(* State.  A message is a dict object: parse_chat holds references to it   *)
(* in the list messages and in current_message, so the objects live in     *)
(* heap and the references are their positions in it; 0 is None.           *)
(***************************************************************************)
VARIABLES
    pc,               \* where main is: "parse", "filter", "stats", "finalize",
                      \*   "dump", "done", or "raised" after an uncaught exception
    lines,            \* the lines of the chat file, without their line ends
    pos,              \* the next line that the loop of parse_chat reads
    heap,             \* the message objects created so far
    messages,         \* parse_chat: the list messages (references)
    current_message,  \* parse_chat: the pending message (reference, 0 for None)
    filtered,         \* the list handed to calculate_stats (message values)
    idx,              \* calculate_stats: the next message of the loop
    prev_message,     \* calculate_stats: position in filtered, 0 for None
    stats,            \* calculate_stats: the stats dict
    output,           \* main: the serialised stats of this run
    run,              \* how many times the pipeline was started on this input
    first_output      \* the serialised stats of the first run

vars == << pc, lines, pos, heap, messages, current_message, filtered, idx,
           prev_message, stats, output, run, first_output >>

parseVars == << lines, pos, heap, messages, current_message >>

statsVars == << filtered, idx, prev_message, stats >>

mainVars == << output, run, first_output >>

None == 0

(***************************************************************************)
(* parse_chat                                                              *)
(***************************************************************************)
\* FullYear without the pivot: every year in the 1900s
FullYearNoPivot(year) == 1900 + year

\* FullYear with the year 50 still in the 2000s
FullYearPivot51(year) == IF year <= 50 THEN 2000 + year ELSE 1900 + year

\* the two-digit year pivot
FullYear(year) == IF year < 50 THEN 2000 + year ELSE 1900 + year

\* Hours24 without the midnight rule: 12 AM stays 12
Hours24NoMidnight(hours, ampm) ==
    IF ampm # << >> /\ Upper(ampm) = << "P", "M" >> /\ hours # 12
    THEN hours + 12 ELSE hours

\* the 12-hour to 24-hour conversion; ampm is << >> when no meridiem matched
Hours24(hours, ampm) ==
    IF ampm # << >>
    THEN IF Upper(ampm) = << "P", "M" >> /\ hours # 12 THEN hours + 12
         ELSE IF Upper(ampm) = << "A", "M" >> /\ hours = 12 THEN 0
         ELSE hours
    ELSE hours

\* the date and time of a matched line: ok is FALSE when datetime(...) raises
\* ValueError
ParseDateTime(match) ==
    WithVal(Split(match.date_str, "/"), LAMBDA parts :
    WithVal(TimeMatch(match.time_str), LAMBDA tm :
    WithVal(<< FullYear(ToInt(parts[3])), ToInt(parts[1]), ToInt(parts[2]),
               Hours24(ToInt(tm.hours), tm.ampm), ToInt(tm.minutes),
               ToInt(tm.seconds) >>, LAMBDA f :
        [ok |-> ValidDateTime(f[1], f[2], f[3], f[4], f[5], f[6]),
         dt |-> DateTime(f[1], f[2], f[3], f[4], f[5], f[6])])))

FratParty == << "f", "r", "a", "t", " ", "p", "a", "r", "t", "y" >>

Prefix2K25 == << "2", "K", "2", "5" >>

OmittedWord == << "o", "m", "i", "t", "t", "e", "d" >>

DeletedWord == << "d", "e", "l", "e", "t", "e", "d" >>

ThisMessageWasDeleted ==
    << "t","h","i","s"," ","m","e","s","s","a","g","e"," ",
       "w","a","s"," ","d","e","l","e","t","e","d" >>

\* the dict built for a message-start line with date dt
NewMessage(dt, sender, raw_content) ==
    WithVal(LStrip(Strip(raw_content), Marks), LAMBDA content :
    WithVal(Lower(content), LAMBDA content_lower :
        [date       |-> dt,
         sender     |-> Strip(sender),
         content    |-> content,
         is_media   |-> Contains(OmittedWord, content_lower),
         is_deleted |-> Contains(DeletedWord, content_lower)
                        \/ Contains(ThisMessageWasDeleted, content_lower),
         is_system  |-> Contains(FratParty, Lower(sender))
                        \/ StartsWith(Strip(sender), Prefix2K25)]))

\* Flush putting the message at the front of the list
FlushFront(msgs, cur) == IF cur # None THEN << cur >> \o msgs ELSE msgs

\* if current_message: messages.append(current_message)
Flush(msgs, cur) == IF cur # None THEN Append(msgs, cur) ELSE msgs

\* Continued with the line as it is, not trimmed
ContinuedUntrimmed(content, line) == content \o << " " >> \o line

\* current_message['content'] += ' ' + line.strip()
Continued(content, line) == content \o << " " >> \o Strip(line)

\* message_pattern.match(clean_line) or message_pattern.match(line)
MatchLine(line) ==
    WithVal(MessagePattern(LStrip(line, Marks)), LAMBDA clean_match :
        IF clean_match.ok THEN clean_match ELSE MessagePattern(line))

\* one iteration of the loop over the file
ParseLine ==
    /\ pc = "parse"
    /\ pos <= Len(lines)
    /\ pos' = pos + 1
    /\ \E line \in {RStrip(lines[pos], {"LF", "CR"})} :
       \E match \in {MatchLine(line)} :
           IF line = << >>
           THEN UNCHANGED << heap, messages, current_message >>
           ELSE IF match.ok
           THEN /\ messages' = Flush(messages, current_message)
                /\ \E r \in {ParseDateTime(match)} :
                       IF ~r.ok
                       THEN UNCHANGED << heap, current_message >>
                       ELSE /\ heap' = Append(heap,
                                   NewMessage(r.dt, match.sender, match.content))
                            /\ current_message' = Len(heap) + 1
           ELSE IF current_message # None /\ Strip(line) # << >>
           THEN /\ heap' = [heap EXCEPT ![current_message].content =
                                        Continued(@, line)]
                /\ UNCHANGED << messages, current_message >>
           ELSE UNCHANGED << heap, messages, current_message >>
    /\ UNCHANGED << pc, lines, filtered, idx, prev_message, stats, output, run,
                    first_output >>

\* the end of the file: the last flush and the return
ParseReturn ==
    /\ pc = "parse"
    /\ pos > Len(lines)
    /\ messages' = Flush(messages, current_message)
    /\ pc' = "filter"
    /\ UNCHANGED << lines, pos, heap, current_message, filtered, idx,
                    prev_message, stats, output, run, first_output >>

\* the list that parse_chat returns: the objects its references name
Returned(msgs) == [i \in 1..Len(msgs) |-> heap[msgs[i]]]

(***************************************************************************)
(* dict, defaultdict and Counter keep their keys in insertion order: a     *)
(* dict is the sequence of its << key, value >> items.                     *)
(***************************************************************************)
Keys(d) == {d[i][1] : i \in 1..Len(d)}

Has(d, k) == \E i \in 1..Len(d) : d[i][1] = k

Get(d, k) == d[CHOOSE i \in 1..Len(d) : d[i][1] = k][2]

\* d[k] = v
Put(d, k, v) ==
    IF Has(d, k)
    THEN [i \in 1..Len(d) |-> IF d[i][1] = k THEN << k, v >> ELSE d[i]]
    ELSE Append(d, << k, v >>)

\* d[k] += 1 on a defaultdict(int) or a Counter
Incr(d, k) == Put(d, k, (IF Has(d, k) THEN Get(d, k) ELSE 0) + 1)

(***************************************************************************)
(* normalize_name                                                          *)
(***************************************************************************)
name_map ==
    << << << "A","b","a","n","o","b"," ","N","a","s","h","a","t" >>,
          << "A","b","a","n","o","b" >> >>,
       << << "F","a","d","y"," ","B","a","r","s","o","u","m" >>,
          << "F","a","d","y"," ","B" >> >>,
       << << "F","a","d","y"," ","H","e","n","e","n" >>,
          << "F","a","d","y"," ","H" >> >>,
       << << "D","a","v","i","d"," ","H","a","n","a" >>,
          << "D","a","v","i","d" >> >>,
       << << "M","e","e","n","a"," ","I","b","r","a","h","i","m" >>,
          << "M","e","e","n","a" >> >>,
       << << "A","n","d","r","o"," ","A","." >>,
          << "A","n","d","r","o" >> >>,
       << << "K","i","r","o","l","o","u","s"," ","K","a","m","e","l" >>,
          << "K","i","r","o" >> >>,
       << << "T","h","o","m","a","s"," ","h","a","n","n","a"," ","D","a","v","i","d","'","s"," ","B","r","o","t","h","e","r" >>,
          << "T","h","o","m","a","s" >> >>,
       << << "A","z","i","z"," ","E","l"," ","R","o","m","a","n","c","y" >>,
          << "A","z","i","z" >> >>,
       << << "A","z","i","z"," ","E","l"," ","R","o","m","a","n","c","y","HEART_EYES" >>,
          << "A","z","i","z" >> >> >>

NormalizeName(name) == IF Has(name_map, name) THEN Get(name_map, name) ELSE name

(***************************************************************************)
(* The text patterns of calculate_stats.  re.findall scans from the left   *)
(* and its matches do not overlap.                                         *)
(***************************************************************************)
\* characters of the model's alphabet that lie in the ranges of emoji_pattern
EmojiChars == {"JOY", "LAUGHING", "ROFL", "HEART_EYES"}

\* len(emoji_pattern.findall(content)): the pattern ends in +, so one match
\* is one maximal run of emoji characters
CountEmojis(content) ==
    Cardinality({i \in 1..Len(content) :
                    /\ content[i] \in EmojiChars
                    /\ (i = 1 \/ content[i - 1] \notin EmojiChars)})

\* the leftmost of a non-empty set of positions
Leftmost(hits) == CHOOSE j \in hits : \A k \in hits : j <= k

\* the alternatives of laugh_pattern, in order
LaughTokens == << << "JOY" >>, << "LAUGHING" >>, << "ROFL" >>, << "l","o","l" >>, << "l","m","a","o" >>, << "h","a","h","a" >>, << "h","e","h","e" >>, << "r","o","f","l" >> >>

\* the length of the laugh token matched at position i, 0 when none matches
LaughAt(s, i) ==
    LET hits == {k \in 1..Len(LaughTokens) :
                    /\ i + Len(LaughTokens[k]) - 1 <= Len(s)
                    /\ Lower(SubSeq(s, i, i + Len(LaughTokens[k]) - 1))
                           = LaughTokens[k]}
    IN  IF hits = {} THEN 0
        ELSE Len(LaughTokens[CHOOSE k \in hits : \A j \in hits : k <= j])

RECURSIVE CountLaughsFrom(_, _)
\* the scan resumes at the leftmost position from i where a token matches,
\* and after that match
CountLaughsFrom(s, i) ==
    WithVal({j \in i..Len(s) : LaughAt(s, j) > 0}, LAMBDA hits :
        IF hits = {} THEN 0
        ELSE WithVal(Leftmost(hits), LAMBDA j :
                 1 + CountLaughsFrom(s, j + LaughAt(s, j))))

\* len(laugh_pattern.findall(content))
CountLaughs(content) == CountLaughsFrom(content, 1)

RECURSIVE SkipNonSpaces(_, _)
\* a run of non-whitespace from position i: the first position after it
SkipNonSpaces(s, i) ==
    IF i <= Len(s) /\ ~IsSpace(s[i]) THEN SkipNonSpaces(s, i + 1) ELSE i

\* the end of the link matched at position i (http, an optional s, ://, and
\* non-whitespace), 0 when none matches
LinkAt(s, i) ==
    LET http  == Lower(SubSeq(s, i, i + 3)) = << "h", "t", "t", "p" >>
        after == IF LowerChar(At(s, i + 4)) = "s" /\ At(s, i + 5) = ":"
                 THEN i + 5 ELSE i + 4
        body  == after + 3
    IN  IF /\ i + 3 <= Len(s)
           /\ http
           /\ At(s, after) = ":" /\ At(s, after + 1) = "/" /\ At(s, after + 2) = "/"
           /\ body <= Len(s) /\ ~IsSpace(s[body])
        THEN SkipNonSpaces(s, body)
        ELSE 0

RECURSIVE CountLinksFrom(_, _)
CountLinksFrom(s, i) ==
    WithVal({j \in i..Len(s) : LinkAt(s, j) > 0}, LAMBDA hits :
        IF hits = {} THEN 0
        ELSE 1 + CountLinksFrom(s, LinkAt(s, Leftmost(hits))))

\* len(link_pattern.findall(content))
CountLinks(content) == CountLinksFrom(content, 1)

RECURSIVE CountMentionsFrom(_, _)
CountMentionsFrom(s, i) ==
    WithVal({j \in i..Len(s) :
                s[j] = "@" /\ j + 1 <= Len(s) /\ ~IsSpace(s[j + 1])},
            LAMBDA hits :
        IF hits = {} THEN 0
        ELSE 1 + CountMentionsFrom(s, SkipNonSpaces(s, Leftmost(hits) + 1)))

\* len(mention_pattern.findall(content)): @ and a run of non-whitespace
CountMentions(content) == CountMentionsFrom(content, 1)

IsLetter(c) == \E i \in 1..26 : UpperSeq[i] = c \/ LowerSeq[i] = c

\* a word character of the regular expression engine, within the alphabet
IsWordChar(c) == IsLetter(c) \/ IsDigit(c) \/ c = "_"

RECURSIVE SkipLetters(_, _)
SkipLetters(s, i) ==
    IF i <= Len(s) /\ IsLetter(s[i]) THEN SkipLetters(s, i + 1) ELSE i

RECURSIVE WordsFrom(_, _)
\* the matches of four or more letters between two word boundaries.  Where
\* the run of letters is followed by a word character, the engine gives
\* letters back, but a position between two letters is no boundary either.
WordsFrom(s, i) ==
    IF i > Len(s) THEN << >>
    ELSE LET e == SkipLetters(s, i)
         IN  IF /\ IsLetter(s[i])
                /\ (i = 1 \/ ~IsWordChar(s[i - 1]))
                /\ e - i >= 4
                /\ ~IsWordChar(At(s, e))
             THEN << SubSeq(s, i, e - 1) >> \o WordsFrom(s, e)
             ELSE WordsFrom(s, i + 1)

\* re.findall of the word pattern on content.lower()
Words(content) == WordsFrom(Lower(content), 1)

RECURSIVE CounterUpdate(_, _)
\* Counter.update(words)
CounterUpdate(counter, words) ==
    IF words = << >> THEN counter
    ELSE CounterUpdate(Incr(counter, Head(words)), Tail(words))

\* IsUpperStr that asks for no cased character
IsUpperStrNoLower(s) ==
    \A i \in 1..Len(s) : \A k \in 1..26 : LowerSeq[k] # s[i]

\* str.isupper(): at least one cased character and no lowercase one
IsUpperStr(s) ==
    /\ \E i \in 1..Len(s) : \E k \in 1..26 : UpperSeq[k] = s[i]
    /\ \A i \in 1..Len(s) : \A k \in 1..26 : LowerSeq[k] # s[i]

common_words ==
    { << "t","h","a","t" >>,
      << "t","h","i","s" >>,
      << "w","i","t","h" >>,
      << "h","a","v","e" >>,
      << "w","i","l","l" >>,
      << "y","o","u","r" >>,
      << "f","r","o","m" >>,
      << "t","h","e","y" >>,
      << "b","e","e","n" >>,
      << "w","e","r","e" >>,
      << "s","a","i","d" >>,
      << "e","a","c","h" >>,
      << "w","h","i","c","h" >>,
      << "t","h","e","i","r" >>,
      << "w","o","u","l","d" >>,
      << "t","h","e","r","e" >>,
      << "c","o","u","l","d" >>,
      << "o","t","h","e","r" >>,
      << "i","n","t","o" >>,
      << "m","o","r","e" >>,
      << "s","o","m","e" >>,
      << "t","h","e","m" >>,
      << "t","h","e","n" >>,
      << "l","i","k","e" >>,
      << "j","u","s","t" >>,
      << "k","n","o","w" >>,
      << "w","h","a","t" >>,
      << "a","b","o","u","t" >>,
      << "w","h","e","n" >>,
      << "m","a","k","e" >>,
      << "t","i","m","e" >>,
      << "v","e","r","y" >>,
      << "a","f","t","e","r" >>,
      << "c","o","m","e" >>,
      << "m","a","d","e" >>,
      << "f","i","n","d" >>,
      << "h","e","r","e" >>,
      << "w","a","n","t" >>,
      << "g","o","i","n","g" >>,
      << "b","a","c","k" >>,
      << "r","e","a","l","l","y" >>,
      << "y","e","a","h" >>,
      << "o","k","a","y" >>,
      << "g","o","o","d" >>,
      << "g","o","n","n","a" >>,
      << "d","o","n","t" >>,
      << "d","i","d","n","t" >>,
      << "c","a","n","t" >>,
      << "w","o","n","t" >>,
      << "i","s","n","t" >> }


(***************************************************************************)
(* calculate_stats.  A duration in minutes is held as its number of        *)
(* seconds (time_diff is total_seconds() / 60), so that it stays exact:    *)
(* Minutes(n) is n minutes.  An optional value (None or a value) is the    *)
(* empty or the one-element sequence.                                      *)
(***************************************************************************)
Minutes(n) == n * 60

Nothing == << >>

Some(x) == << x >>

\* the default value of stats['by_person']
NewPerson ==
    [messages              |-> 0,
     media                 |-> 0,
     total_chars           |-> 0,
     response_times        |-> << >>,
     active_days           |-> {},
     by_hour               |-> [h \in 0..23 |-> 0],
     by_day                |-> [d \in 0..6 |-> 0],
     emojis                |-> 0,
     questions             |-> 0,
     laughs                |-> 0,
     exclamations          |-> 0,
     caps_messages         |-> 0,
     links                 |-> 0,
     mentions              |-> 0,
     long_messages         |-> 0,
     short_messages        |-> 0,
     first_message         |-> Nothing,
     last_message          |-> Nothing,
     conversations_started |-> 0,
     replied_to_count      |-> 0,
     weekend_messages      |-> 0,
     late_night_messages   |-> 0,
     morning_messages      |-> 0,
     message_lengths       |-> << >>]

\* the stats dict before the loop
NewStats ==
    [total_messages  |-> 0,
     total_media     |-> 0,
     total_chars     |-> 0,
     by_person       |-> << >>,
     by_month        |-> << >>,
     by_hour         |-> [h \in 0..23 |-> 0],
     by_day_of_week  |-> [d \in 0..6 |-> 0],
     daily_counts    |-> << >>,
     longest_message |-> [sender |-> << >>, length |-> 0, preview |-> << >>],
     active_days     |-> {},
     conversations   |-> << >>,
     word_counts     |-> << >>]

\* PersonOf giving a new record every time, whatever the dict holds
PersonOfFresh(st, sender) == NewPerson

\* stats['by_person'][sender] on the defaultdict
PersonOf(st, sender) ==
    IF Has(st.by_person, sender) THEN Get(st.by_person, sender) ELSE NewPerson

\* day_of_week, Sunday = 0
DayOfWeek(dt) == (Weekday(dt) + 1) % 7

\* Preview without the marks of omission
PreviewCut(content) ==
    IF Len(content) > 150 THEN SubSeq(content, 1, 150) ELSE content

\* content[:150] + ('...' if len(content) > 150 else '')
Preview(content) ==
    IF Len(content) > 150
    THEN SubSeq(content, 1, 150) \o << ".", ".", "." >>
    ELSE content

\* the basic counts of one message, for its person record
BasicPerson(person, msg) ==
    LET hour        == msg.date.hour
        day_of_week == DayOfWeek(msg.date)
    IN  [person EXCEPT
            !.messages            = @ + 1,
            !.active_days         = @ \cup {DateKey(msg.date)},
            !.by_hour[hour]       = @ + 1,
            !.by_day[day_of_week] = @ + 1,
            !.weekend_messages    =
                IF day_of_week = 0 \/ day_of_week = 6 THEN @ + 1 ELSE @,
            !.late_night_messages =
                IF hour >= 23 \/ hour < 4 THEN @ + 1 ELSE @,
            !.morning_messages    =
                IF 5 <= hour /\ hour < 9 THEN @ + 1 ELSE @,
            !.first_message       = IF @ = Nothing THEN Some(msg.date) ELSE @,
            !.last_message        = Some(msg.date)]

\* IsMedia taking every message for a text message
IsMediaNever(msg) == FALSE

\* if msg['is_media']
IsMedia(msg) == msg.is_media

\* the branch on is_media, for the person record
ContentPerson(person, msg) ==
    LET content == msg.content
    IN  IF IsMedia(msg)
        THEN [person EXCEPT !.media = @ + 1]
        ELSE [person EXCEPT
                !.total_chars     = @ + Len(content),
                !.message_lengths = Append(@, Len(content)),
                !.long_messages   = IF Len(content) > 200 THEN @ + 1 ELSE @,
                !.short_messages  =
                    IF Len(content) > 200 THEN @
                    ELSE IF Len(content) < 10 THEN @ + 1 ELSE @,
                !.emojis          = @ + CountEmojis(content),
                !.questions       =
                    IF \E i \in 1..Len(content) : content[i] = "?"
                    THEN @ + 1 ELSE @,
                !.exclamations    =
                    IF \E i \in 1..Len(content) : content[i] = "!"
                    THEN @ + 1 ELSE @,
                !.caps_messages   =
                    IF Len(content) > 5 /\ IsUpperStr(content) THEN @ + 1 ELSE @,
                !.laughs          = @ + CountLaughs(content),
                !.links           = @ + CountLinks(content),
                !.mentions        = @ + CountMentions(content)]

\* the counts of one message outside the person records
CountGlobal(st, msg, sender) ==
    LET content == msg.content
        basic   == [st EXCEPT
                      !.total_messages = @ + 1,
                      !.active_days    = @ \cup {DateKey(msg.date)},
                      !.by_hour[msg.date.hour] = @ + 1,
                      !.by_day_of_week[DayOfWeek(msg.date)] = @ + 1,
                      !.by_month       = Incr(@, MonthKey(msg.date)),
                      !.daily_counts   = Incr(@, DateKey(msg.date))]
    IN  IF IsMedia(msg)
        THEN [basic EXCEPT !.total_media = @ + 1]
        ELSE [basic EXCEPT
                !.total_chars     = @ + Len(content),
                !.longest_message =
                    IF Len(content) > @.length
                    THEN [sender  |-> sender,
                          length  |-> Len(content),
                          preview |-> Preview(content)]
                    ELSE @,
                !.word_counts     = CounterUpdate(@, Words(content))]

\* NewConversation with the gap of two hours included
NewConversationAtLeast(time_diff) == time_diff >= Minutes(120)

\* NewConversation with a gap of one hour
NewConversationAfterHour(time_diff) == time_diff > Minutes(60)

\* time_diff > 120: a new conversation started
NewConversation(time_diff) == time_diff > Minutes(120)

\* IsResponse without the comparison of the senders
IsResponseAnySender(prev, msg, time_diff) ==
    0 < time_diff /\ time_diff < Minutes(60)

\* the response-time condition: another sender, within one hour
IsResponse(prev, msg, time_diff) ==
    prev.sender # msg.sender /\ 0 < time_diff /\ time_diff < Minutes(60)

\* IsReply with the bound of 30 minutes included
IsReplyInclusive(prev, msg, time_diff) ==
    prev.sender # msg.sender /\ time_diff <= Minutes(30)

\* the condition under which the previous sender got replied to
IsReply(prev, msg, time_diff) ==
    prev.sender # msg.sender /\ time_diff < Minutes(30)

\* the response-time and conversation tracking of msg against prev
Track(st, msg, prev) ==
    LET sender    == NormalizeName(msg.sender)
        time_diff == TotalSeconds(msg.date, prev.date)
        person    == Get(st.by_person, sender)
        person1   == [person EXCEPT
                        !.conversations_started =
                            IF NewConversation(time_diff) THEN @ + 1 ELSE @,
                        !.response_times =
                            IF IsResponse(prev, msg, time_diff)
                            THEN Append(@, time_diff) ELSE @]
        st1       == [st EXCEPT !.by_person = Put(@, sender, person1)]
        prev_sender == NormalizeName(prev.sender)
    IN  IF IsReply(prev, msg, time_diff) /\ Has(st1.by_person, prev_sender)
        THEN [st1 EXCEPT !.by_person =
                 Put(@, prev_sender,
                     [Get(@, prev_sender) EXCEPT !.replied_to_count = @ + 1])]
        ELSE st1

\* the body of the loop for a message that is not skipped; prev is the
\* position of the previous message in msgs, None when there is none
Process(st, msgs, i, prev) ==
    LET msg     == msgs[i]
        sender  == NormalizeName(msg.sender)
        person  == ContentPerson(BasicPerson(PersonOf(st, sender), msg), msg)
        counted == [CountGlobal(st, msg, sender) EXCEPT
                       !.by_person = Put(@, sender, person)]
    IN  IF prev # None THEN Track(counted, msg, msgs[prev]) ELSE counted

\* NextPrev with a skipped message becoming the previous message too
NextPrevAlways(msgs, i, prev) == i

\* NextPrev keeping the first retained message as the previous one for good
NextPrevFirst(msgs, i, prev) ==
    IF msgs[i].is_system \/ prev # None THEN prev ELSE i

\* the position that prev_message holds after msgs[i] went through the loop
NextPrev(msgs, i, prev) == IF msgs[i].is_system THEN prev ELSE i

\* one iteration of the loop over messages
StatsStep ==
    /\ pc = "stats"
    /\ idx <= Len(filtered)
    /\ idx' = idx + 1
    /\ stats' = IF filtered[idx].is_system THEN stats
                ELSE Process(stats, filtered, idx, prev_message)
    /\ prev_message' = NextPrev(filtered, idx, prev_message)
    /\ UNCHANGED << pc, lines, pos, heap, messages, current_message, filtered,
                    output, run, first_output >>

(***************************************************************************)
(* The derived stats.  round() rounds an exact tie to the even neighbour;  *)
(* the quotients of the model have ties only at values a float holds       *)
(* exactly (the timestamps of the model are multiples of 30 seconds), so   *)
(* the exact rule is the float's.  A number rounded to one decimal is held *)
(* as its number of tenths.                                                *)
(***************************************************************************)
\* round(n / d) for n >= 0 and d > 0
RoundHalfEven(n, d) ==
    LET q == n \div d
        r == n % d
    IN  IF 2 * r < d THEN q
        ELSE IF 2 * r > d THEN q + 1
        ELSE IF q % 2 = 0 THEN q ELSE q + 1

RECURSIVE SumSeq(_)
SumSeq(s) == IF s = << >> THEN 0 ELSE Head(s) + SumSeq(Tail(s))

\* MinSeq giving the first sample, whatever follows it
FirstSample(s) == s[1]

\* min(s) and max(s) of a non-empty list of numbers
MinSeq(s) == CHOOSE x \in {s[i] : i \in 1..Len(s)} : \A i \in 1..Len(s) : x <= s[i]

MaxSeq(s) == CHOOSE x \in {s[i] : i \in 1..Len(s)} : \A i \in 1..Len(s) : x >= s[i]

\* PeakIndex giving the last of the buckets that hold the maximum
PeakIndexLast(hist, n) ==
    CHOOSE i \in 0..n :
        (\A j \in 0..n : hist[j] <= hist[i]) /\ (\A j \in (i + 1)..n : hist[j] # hist[i])

\* hist.index(max(hist)) on a histogram with buckets 0..n
PeakIndex(hist, n) ==
    LET top == CHOOSE x \in {hist[i] : i \in 0..n} : \A i \in 0..n : x >= hist[i]
    IN  CHOOSE i \in 0..n : hist[i] = top /\ \A j \in 0..(i - 1) : hist[j] # top

\* the orders in which iterating a set can give its elements: the order of
\* a set of str follows the hashes, which differ from one process to the next
Orders(S) ==
    {f \in [1..Cardinality(S) -> S] : \A i, j \in 1..Cardinality(S) : f[i] = f[j] => i = j}

\* AvgChars over all the messages of the person, media included
AvgCharsPerMessage(person) ==
    IF person.messages > 0
    THEN RoundHalfEven(person.total_chars, person.messages) ELSE 0

\* round(total_chars / text_messages) if text_messages > 0 else 0
AvgChars(person) ==
    LET text_messages == person.messages - person.media
    IN  IF text_messages > 0
        THEN RoundHalfEven(person.total_chars, text_messages) ELSE 0

\* the person record after the loop over by_person, with list(active_days)
\* giving the order days
DerivedPerson(person, days) ==
        [messages              |-> person.messages,
         media                 |-> person.media,
         total_chars           |-> person.total_chars,
         active_days           |-> days,
         active_days_count     |-> Cardinality(person.active_days),
         by_hour               |-> person.by_hour,
         by_day                |-> person.by_day,
         emojis                |-> person.emojis,
         questions             |-> person.questions,
         laughs                |-> person.laughs,
         exclamations          |-> person.exclamations,
         caps_messages         |-> person.caps_messages,
         links                 |-> person.links,
         mentions              |-> person.mentions,
         long_messages         |-> person.long_messages,
         short_messages        |-> person.short_messages,
         first_message         |-> person.first_message,
         last_message          |-> person.last_message,
         conversations_started |-> person.conversations_started,
         replied_to_count      |-> person.replied_to_count,
         weekend_messages      |-> person.weekend_messages,
         late_night_messages   |-> person.late_night_messages,
         morning_messages      |-> person.morning_messages,
         avg_chars             |-> AvgChars(person),
         avg_response          |->
             IF person.response_times # << >>
             THEN Some(RoundHalfEven(10 * SumSeq(person.response_times),
                                     Minutes(1) * Len(person.response_times)))
             ELSE Nothing,
         fastest_response      |->
             IF person.response_times # << >>
             THEN Some(RoundHalfEven(10 * MinSeq(person.response_times), Minutes(1)))
             ELSE Nothing,
         peak_hour             |-> PeakIndex(person.by_hour, 23),
         peak_day              |-> PeakIndex(person.by_day, 6),
         engagement_rate       |->
             IF person.messages > 0
             THEN RoundHalfEven(1000 * person.replied_to_count, person.messages)
             ELSE 0,
         media_ratio           |->
             IF person.messages > 0
             THEN RoundHalfEven(1000 * person.media, person.messages)
             ELSE 0]

\* MaxItem giving the last of the items that hold the greatest count
MaxItemLast(d) ==
    d[CHOOSE i \in 1..Len(d) :
          (\A j \in 1..Len(d) : d[j][2] <= d[i][2])
          /\ (\A j \in (i + 1)..Len(d) : d[j][2] # d[i][2])]

\* max(d.items(), key=lambda x: x[1]) on a non-empty dict: the first item, in
\* insertion order, that holds the greatest count
MaxItem(d) ==
    LET top == MaxSeq([i \in 1..Len(d) |-> d[i][2]])
    IN  d[CHOOSE i \in 1..Len(d) :
              d[i][2] = top /\ \A j \in 1..(i - 1) : d[j][2] # top]

RECURSIVE MostCommon(_)
\* Counter.most_common(): by count, greatest first, equal counts in
\* insertion order
MostCommon(counter) ==
    IF counter = << >> THEN << >>
    ELSE LET top == MaxItem(counter)
             k   == CHOOSE i \in 1..Len(counter) : counter[i] = top
         IN  << top >> \o MostCommon(SubSeq(counter, 1, k - 1)
                                     \o SubSeq(counter, k + 1, Len(counter)))

FirstN(s, n) == SubSeq(s, 1, IF Len(s) < n THEN Len(s) ELSE n)

IsUncommon(item) == item[1] \notin common_words

\* stats['top_words']
TopWords(counter) ==
    FirstN(SelectSeq(FirstN(MostCommon(counter), 50), IsUncommon), 20)

\* the stats dict that calculate_stats returns, when list() gives the global
\* active days in the order gdays and those of person k in the order pdays[k]
Finalized(st, gdays, pdays) ==
    [total_messages  |-> st.total_messages,
     total_media     |-> st.total_media,
     total_chars     |-> st.total_chars,
     by_person       |->
         [i \in 1..Len(st.by_person) |->
             << st.by_person[i][1],
                DerivedPerson(st.by_person[i][2], pdays[st.by_person[i][1]]) >>],
     by_month        |-> st.by_month,
     by_hour         |-> st.by_hour,
     by_day_of_week  |-> st.by_day_of_week,
     daily_counts    |-> st.daily_counts,
     longest_message |-> st.longest_message,
     active_days     |-> gdays,
     total_days      |-> Len(gdays),
     most_active_day |-> [date  |-> MaxItem(st.daily_counts)[1],
                          count |-> MaxItem(st.daily_counts)[2]],
     top_words       |-> TopWords(st.word_counts)]

\* the orders list() can give for the active days of every person
PersonOrders(st) ==
    LET keys == Keys(st.by_person)
        all  == UNION {Orders(Get(st.by_person, k).active_days) : k \in keys}
    IN  {f \in [keys -> all] :
            \A k \in keys : f[k] \in Orders(Get(st.by_person, k).active_days)}

\* max() raises ValueError on the items of an empty daily_counts
MaxRaises(st) == st.daily_counts = << >>

\* after the loop: the derived stats, the most active day, the conversions
\* and the return; the exception of max() is caught nowhere
Finalize ==
    /\ pc = "stats"
    /\ idx > Len(filtered)
    /\ IF MaxRaises(stats)
       THEN /\ pc' = "raised"
            /\ UNCHANGED stats
       ELSE /\ pc' = "dump"
            /\ \E gdays \in Orders(stats.active_days) :
                   \E pdays \in PersonOrders(stats) :
                       stats' = Finalized(stats, gdays, pdays)
    /\ UNCHANGED << lines, pos, heap, messages, current_message, filtered, idx,
                    prev_message, output, run, first_output >>


(***************************************************************************)
(* filter_last_365_days and main                                           *)
(***************************************************************************)
cutoff == DateTime(2024, 11, 25, 0, 0, 0)

end_date == DateTime(2025, 11, 25, 23, 59, 59)

\* InWindow with both bounds left out
InWindowExclusive(m) == ~DateLE(m.date, cutoff) /\ ~DateLE(end_date, m.date)

\* cutoff <= m['date'] <= end_date
InWindow(m) == DateLE(cutoff, m.date) /\ DateLE(m.date, end_date)

\* [m for m in messages if cutoff <= m['date'] <= end_date]
FilterLast365Days(msgs) == SelectSeq(msgs, InWindow)

\* main: filtered = filter_last_365_days(messages), and the start of
\* calculate_stats(filtered)
Filter ==
    /\ pc = "filter"
    /\ filtered' = FilterLast365Days(Returned(messages))
    /\ idx' = 1
    /\ prev_message' = None
    /\ stats' = NewStats
    /\ pc' = "stats"
    /\ UNCHANGED << lines, pos, heap, messages, current_message, output, run,
                    first_output >>

\* json.dumps(stats, indent=2, default=str) keeps every list in its order
\* and every dict in its insertion order: the text is held as the structure
Serialised(st) == st

\* main after calculate_stats returned: the dashboard with the stats in it
Dump ==
    /\ pc = "dump"
    /\ output' = Some(Serialised(stats))
    /\ pc' = "done"
    /\ UNCHANGED << lines, pos, heap, messages, current_message, filtered, idx,
                    prev_message, stats, run, first_output >>

\* the program is run once more on the same file
Rerun ==
    /\ pc = "done"
    /\ run = 1
    /\ run' = 2
    /\ first_output' = output
    /\ output' = Nothing
    /\ pc' = "parse"
    /\ pos' = 1
    /\ heap' = << >>
    /\ messages' = << >>
    /\ current_message' = None
    /\ filtered' = << >>
    /\ idx' = 1
    /\ prev_message' = None
    /\ stats' = NewStats
    /\ UNCHANGED lines

(***************************************************************************)
(* Inputs.                                                                 *)
(***************************************************************************)
\* [11/25/24, 09:00:00 AM] Alice: Hello everyone!
ChatLine1 ==
    << "[","1","1","/","2","5","/","2","4",","," ","0","9",":","0","0",":",
       "0","0"," ","A","M","]"," ","A","l","i","c","e",":"," ","H","e","l",
       "l","o"," ","e","v","e","r","y","o","n","e","!" >>

\* [11/25/24, 09:05:00 AM] Bob: Hi Alice, how are you?
ChatLine2 ==
    << "[","1","1","/","2","5","/","2","4",","," ","0","9",":","0","5",":",
       "0","0"," ","A","M","]"," ","B","o","b",":"," ","H","i"," ","A","l",
       "i","c","e",","," ","h","o","w"," ","a","r","e"," ","y","o","u","?" >>

\* [11/25/24, 09:05:30 AM] Alice: <Media omitted>
ChatLine3 ==
    << "[","1","1","/","2","5","/","2","4",","," ","0","9",":","0","5",":",
       "3","0"," ","A","M","]"," ","A","l","i","c","e",":"," ","<","M","e",
       "d","i","a"," ","o","m","i","t","t","e","d",">" >>

\* [11/31/24, 09:01:00 AM] Bob: lost
BadDateLine ==
    << "[","1","1","/","3","1","/","2","4",","," ","0","9",":","0","1",":",
       "0","0"," ","A","M","]"," ","B","o","b",":"," ","l","o","s","t" >>

\* <U+200E>[11/24/24, 11:30:00 pm] Bob : early
EarlyLine ==
    << "LRM","[","1","1","/","2","4","/","2","4",","," ","1","1",":","3",
       "0",":","0","0"," ","p","m","]"," ","B","o","b"," ",":"," ","e","a",
       "r","l","y" >>

\* [11/26/24, 10:00:00 PM] Bob: LOL WOW!
NextDayLine ==
    << "[","1","1","/","2","6","/","2","4",","," ","1","0",":","0","0",":",
       "0","0"," ","P","M","]"," ","B","o","b",":"," ","L","O","L"," ","W",
       "O","W","!" >>

\* [1/5/25, 7:30:00] 2K25 Frat Party: welcome
SystemLine ==
    << "[","1","/","5","/","2","5",","," ","7",":","3","0",":","0","0","]",
       " ","2","K","2","5"," ","F","r","a","t"," ","P","a","r","t","y",":",
       " ","w","e","l","c","o","m","e" >>

\* see you soon
PlainLine ==
    << "s","e","e"," ","y","o","u"," ","s","o","o","n" >>

\*  image omitted 
OmittedLine ==
    << " ","i","m","a","g","e"," ","o","m","i","t","t","e","d"," " >>

\* the empty line
BlankLine ==
    <<  >>

\* a line of two spaces
SpaceLine ==
    << " "," " >>

\* the lines that the files of SpecParse are made of
ParseLines ==
    {ChatLine1, ChatLine2, ChatLine3, BadDateLine, EarlyLine, SystemLine,
     PlainLine, OmittedLine, BlankLine, SpaceLine}

\* the lines that the files of Spec are made of
MainLines == {ChatLine1, ChatLine2, ChatLine3, NextDayLine, EarlyLine}

\* the lists of at most n elements of S
SeqsUpTo(S, n) == UNION {[1..k -> S] : k \in 0..n}

Alice == << "A", "l", "i", "c", "e" >>

Bob == << "B", "o", "b" >>

FratSender == << "2", "K", "2", "5", " ", "F", "r", "a", "t" >>

Hello == << "H", "e", "l", "l", "o" >>

MediaOmitted ==
    << "<", "M", "e", "d", "i", "a", " ", "o", "m", "i", "t", "t", "e", "d", ">" >>

\* the times of day of the messages handed to calculate_stats in SpecStats:
\* 09:00, 09:10, 09:30, 10:00, 11:00 and 11:10 on 2024-11-25
StatsTimes ==
    {DateTime(2024, 11, 25, 9, 0, 0), DateTime(2024, 11, 25, 9, 10, 0),
     DateTime(2024, 11, 25, 9, 30, 0), DateTime(2024, 11, 25, 10, 0, 0),
     DateTime(2024, 11, 25, 11, 0, 0), DateTime(2024, 11, 25, 11, 10, 0)}

\* the messages of SpecStats, each as parse_chat builds it
StatsMessages ==
    {NewMessage(t, s, Hello) : t \in StatsTimes, s \in {Alice, Bob}}
    \cup {NewMessage(DateTime(2024, 11, 25, 9, 5, 0), FratSender, Hello),
          NewMessage(DateTime(2024, 11, 25, 9, 20, 0), Bob, MediaOmitted)}

(***************************************************************************)
(* Specifications.                                                         *)
(***************************************************************************)
InitRun ==
    /\ pos = 1
    /\ heap = << >>
    /\ messages = << >>
    /\ current_message = None
    /\ filtered = << >>
    /\ idx = 1
    /\ prev_message = None
    /\ stats = NewStats
    /\ output = Nothing
    /\ run = 1
    /\ first_output = Nothing

\* main on a chat file, twice
Init ==
    /\ pc = "parse"
    /\ lines \in SeqsUpTo(MainLines, MaxLines)
    /\ InitRun

Next ==
    \/ ParseLine
    \/ ParseReturn
    \/ Filter
    \/ StatsStep
    \/ Finalize
    \/ Dump
    \/ Rerun

Spec == Init /\ [][Next]_vars

\* parse_chat on a chat file
InitParse ==
    /\ pc = "parse"
    /\ lines \in SeqsUpTo(ParseLines, MaxLines)
    /\ InitRun

NextParse ==
    \/ ParseLine
    \/ ParseReturn

SpecParse == InitParse /\ [][NextParse]_vars

\* calculate_stats on a list of messages
InitStats ==
    /\ pc = "stats"
    /\ lines = << >>
    /\ pos = 1
    /\ heap = << >>
    /\ messages = << >>
    /\ current_message = None
    /\ filtered \in SeqsUpTo(StatsMessages, MaxMsgs)
    /\ idx = 1
    /\ prev_message = None
    /\ stats = NewStats
    /\ output = Nothing
    /\ run = 1
    /\ first_output = Nothing

NextStats ==
    \/ StatsStep
    \/ Finalize

SpecStats == InitStats /\ [][NextStats]_vars


(***************************************************************************)
(* Properties of parse_chat.                                               *)
(***************************************************************************)
\* what the line that ParseLine is about to read is
ReadsLine == pc = "parse" /\ pos <= Len(lines)

CurrentLine == RStrip(lines[pos], {"LF", "CR"})

IsStartLine(line) == MatchLine(line).ok

IsValidStart(line) == IsStartLine(line) /\ ParseDateTime(MatchLine(line)).ok

IsInvalidStart(line) == IsStartLine(line) /\ ~ParseDateTime(MatchLine(line)).ok

\* the date and time of every valid message-start line of a file, in order
RECURSIVE ValidStartDates(_)
ValidStartDates(file) ==
    IF file = << >> THEN << >>
    ELSE LET line == RStrip(Head(file), {"LF", "CR"})
         IN  (IF IsValidStart(line)
              THEN << ParseDateTime(MatchLine(line)).dt >> ELSE << >>)
             \o ValidStartDates(Tail(file))

\* the senders of the same lines
RECURSIVE ValidStartSenders(_)
ValidStartSenders(file) ==
    IF file = << >> THEN << >>
    ELSE LET line == RStrip(Head(file), {"LF", "CR"})
         IN  (IF IsValidStart(line)
              THEN << Strip(MatchLine(line).sender) >> ELSE << >>)
             \o ValidStartSenders(Tail(file))

NonDecreasing(dates) ==
    \A i \in 1..(Len(dates) - 1) : DateLE(dates[i], dates[i + 1])

DatesOf(msgs) == [i \in 1..Len(msgs) |-> msgs[i].date]

ParseReturned == pc = "filter"

\* C1: reading a message-start line whose date and time do not construct
\* changes nothing: no entry is appended to the output list and the pending
\* message stays as it was; the output list grows only on a line whose
\* message has been built, or at the end of the input.
C1_InvalidDateChangesNothing ==
    [][ReadsLine =>
          /\ IsInvalidStart(CurrentLine) =>
                 /\ messages' = messages
                 /\ current_message' = current_message
                 /\ heap' = heap
          /\ messages' # messages => IsValidStart(CurrentLine)]_vars

\* C2: the list that parse_chat returns holds exactly one message per valid
\* message-start line, in log order, and none twice.
C2_OneMessagePerValidLine ==
    ParseReturned =>
        /\ Len(messages) = Len(ValidStartDates(lines))
        /\ \A i, j \in 1..Len(messages) : messages[i] = messages[j] => i = j
        /\ DatesOf(Returned(messages)) = ValidStartDates(lines)
        /\ [i \in 1..Len(messages) |-> heap[messages[i]].sender]
               = ValidStartSenders(lines)

\* C4, as claimed: for any input, the returned messages are non-decreasing
\* in timestamp.
C4_OutputSortedForAnyInput ==
    ParseReturned => NonDecreasing(DatesOf(Returned(messages)))

\* C4, amended: the messages are kept in log order, so the list is
\* non-decreasing in timestamp whenever the valid message-start lines of the
\* input are.
C4_OutputSortedWhenLogIs ==
    NonDecreasing(ValidStartDates(lines))
        => NonDecreasing(DatesOf(Returned(messages)))

\* a chronological log has gone through parse_chat and gave messages of
\* different times
C4_Witness ==
    /\ ParseReturned
    /\ NonDecreasing(ValidStartDates(lines))
    /\ Len(messages) >= 2
    /\ heap[messages[1]].date # heap[messages[Len(messages)]].date


(***************************************************************************)
(* Properties of calculate_stats.                                          *)
(***************************************************************************)
\* the loop of calculate_stats is about to take filtered[idx]
TakesMessage == pc = "stats" /\ idx <= Len(filtered)

\* the position of the last message before position i that is not a system
\* message, None when there is none
PrevRetained(msgs, i) ==
    IF \E k \in 1..(i - 1) : ~msgs[k].is_system
    THEN CHOOSE k \in 1..(i - 1) :
             ~msgs[k].is_system /\ \A j \in (k + 1)..(i - 1) : msgs[j].is_system
    ELSE None

\* the normalized names of the senders of the input
People == {NormalizeName(filtered[i].sender) : i \in 1..Len(filtered)}

SamplesOf(st, p) ==
    IF Has(st.by_person, p) THEN Get(st.by_person, p).response_times ELSE << >>

StartedOf(st, p) ==
    IF Has(st.by_person, p) THEN Get(st.by_person, p).conversations_started ELSE 0

RepliedOf(st, p) ==
    IF Has(st.by_person, p) THEN Get(st.by_person, p).replied_to_count ELSE 0

\* the minutes (as seconds) from the previous retained message to filtered[i]
Elapsed(i) ==
    TotalSeconds(filtered[i].date, filtered[PrevRetained(filtered, i)].date)

\* C3: with no retained message (an empty list, or system messages only)
\* calculate_stats does not raise: it returns stats with the totals at 0, no
\* person record and no most active day.
C3_NoMessageGivesZeroStats ==
    (pc # "stats" /\ \A i \in 1..Len(filtered) : filtered[i].is_system) =>
        /\ pc = "dump"
        /\ stats.total_messages = 0
        /\ stats.total_media = 0
        /\ stats.total_chars = 0
        /\ stats.by_person = << >>
        /\ stats.most_active_day = Nothing

\* C6: a retained message cur with a previous retained message prev records
\* the elapsed minutes as a response-time sample of cur's sender exactly when
\* prev's sender differs from cur's and the elapsed time is strictly between
\* 0 and 60 minutes; nobody else gets a sample, and without prev nobody does.
C6_ResponseSampleForCurrentSender ==
    [][(TakesMessage /\ ~filtered[idx].is_system) =>
          LET cur     == filtered[idx]
              who     == NormalizeName(cur.sender)
              k       == PrevRetained(filtered, idx)
              records == /\ k # None
                         /\ filtered[k].sender # cur.sender
                         /\ Elapsed(idx) > 0
                         /\ Elapsed(idx) < Minutes(60)
          IN  /\ SamplesOf(stats', who) =
                     IF records THEN Append(SamplesOf(stats, who), Elapsed(idx))
                     ELSE SamplesOf(stats, who)
              /\ \A p \in People \ {who} : SamplesOf(stats', p) = SamplesOf(stats, p)
       ]_vars

\* Alice at 09:00 and Bob at 09:10 went through the loop: Bob holds the
\* sample of 10 minutes and Alice holds none
C6_Witness ==
    /\ pc = "stats"
    /\ idx = 3
    /\ filtered[1].sender = Alice /\ filtered[1].date = DateTime(2024, 11, 25, 9, 0, 0)
    /\ filtered[2].sender = Bob /\ filtered[2].date = DateTime(2024, 11, 25, 9, 10, 0)
    /\ SamplesOf(stats, Bob) = << Minutes(10) >>
    /\ SamplesOf(stats, Alice) = << >>

\* C7: a retained message adds one to its own sender's conversations_started
\* exactly when a previous retained message exists and more than 120 minutes
\* have elapsed since it, whoever sent the two; nobody else's counter changes.
C7_ConversationStartedAfter120 ==
    [][(TakesMessage /\ ~filtered[idx].is_system) =>
          LET who    == NormalizeName(filtered[idx].sender)
              starts == /\ PrevRetained(filtered, idx) # None
                        /\ Elapsed(idx) > Minutes(120)
          IN  \A p \in People :
                  StartedOf(stats', p) =
                      StartedOf(stats, p) + (IF starts /\ p = who THEN 1 ELSE 0)
       ]_vars

\* three messages went through the loop: Alice at 09:00, Alice at 11:10 (130
\* minutes later, counted) and Bob at 11:10 (no time later, not counted)
C7_Witness ==
    /\ pc = "stats"
    /\ idx = 4
    /\ filtered[1].sender = Alice /\ filtered[1].date = DateTime(2024, 11, 25, 9, 0, 0)
    /\ filtered[2].sender = Alice /\ filtered[2].date = DateTime(2024, 11, 25, 11, 10, 0)
    /\ filtered[3].sender = Bob /\ filtered[3].date = DateTime(2024, 11, 25, 11, 10, 0)
    /\ StartedOf(stats, Alice) = 1
    /\ StartedOf(stats, Bob) = 0

\* C8: a system message changes no counter and never becomes the previous
\* message: after every message, the previous message is the last message so
\* far that is not a system message.
C8_SystemMessageSkipped ==
    [][TakesMessage =>
          /\ filtered[idx].is_system =>
                 stats' = stats /\ prev_message' = prev_message
          /\ prev_message' = PrevRetained(filtered, idx')
       ]_vars

\* Alice at 09:00, a system message at 09:05 and Bob at 09:10 went through
\* the loop: Bob's sample is the 10 minutes since Alice's message
C8_Witness ==
    /\ pc = "stats"
    /\ idx = 4
    /\ filtered[1].sender = Alice /\ filtered[1].date = DateTime(2024, 11, 25, 9, 0, 0)
    /\ filtered[2].is_system
    /\ filtered[3].sender = Bob /\ filtered[3].date = DateTime(2024, 11, 25, 9, 10, 0)
    /\ prev_message = 3
    /\ stats.total_messages = 2
    /\ SamplesOf(stats, Bob) = << Minutes(10) >>

\* C9: a retained message cur with a previous retained message prev adds one
\* to the replied_to_count of prev's normalized sender exactly when prev's
\* sender differs from cur's and less than 30 minutes have elapsed; nobody
\* else's counter changes, and without prev nobody's does.
C9_RepliedToForPreviousSender ==
    [][(TakesMessage /\ ~filtered[idx].is_system) =>
          LET cur     == filtered[idx]
              k       == PrevRetained(filtered, idx)
              replied == /\ k # None
                         /\ filtered[k].sender # cur.sender
                         /\ Elapsed(idx) < Minutes(30)
          IN  \A p \in People :
                  RepliedOf(stats', p) =
                      RepliedOf(stats, p)
                      + (IF replied /\ p = NormalizeName(filtered[k].sender)
                         THEN 1 ELSE 0)
       ]_vars

\* Alice at 09:00 and Bob at 09:10 went through the loop: Alice got replied
\* to once and Bob not at all
C9_Witness ==
    /\ pc = "stats"
    /\ idx = 3
    /\ filtered[1].sender = Alice /\ filtered[1].date = DateTime(2024, 11, 25, 9, 0, 0)
    /\ filtered[2].sender = Bob /\ filtered[2].date = DateTime(2024, 11, 25, 9, 10, 0)
    /\ RepliedOf(stats, Alice) = 1
    /\ RepliedOf(stats, Bob) = 0

(***************************************************************************)
(* Properties of the whole run.                                            *)
(***************************************************************************)
\* C5: two runs on the same file give the same serialised stats, the order
\* of the lists made from sets included.
C5_SecondRunGivesSameOutput ==
    (run = 2 /\ pc = "done") => output = first_output

EndToEndLines == << ChatLine1, ChatLine2, ChatLine3 >>

\* C10: the three lines of the end-to-end scenario give total_messages = 3,
\* total_media = 1, two messages for Alice and one for Bob, one response
\* sample of 5 minutes for Bob, and a replied_to_count of 1 for Alice.
C10_EndToEnd ==
    lines = EndToEndLines =>
        /\ pc # "raised"
        /\ (pc = "stats" /\ idx > Len(filtered)) \/ pc \in {"dump", "done"} =>
               /\ stats.total_messages = 3
               /\ stats.total_media = 1
               /\ Keys(stats.by_person) = {Alice, Bob}
               /\ Get(stats.by_person, Alice).messages = 2
               /\ Get(stats.by_person, Bob).messages = 1
               /\ Get(stats.by_person, Alice).replied_to_count = 1
        /\ (pc = "stats" /\ idx > Len(filtered)) =>
               Get(stats.by_person, Bob).response_times = << Minutes(5) >>

\* the end-to-end scenario has run to its end
C10_Witness == lines = EndToEndLines /\ pc = "done" /\ output # Nothing


(***************************************************************************)
(* Continuation lines.                                                     *)
(***************************************************************************)
\* line p of the file as the loop sees it
LineAt(p) == RStrip(lines[p], {"LF", "CR"})

\* a non-blank line that does not match the message-start pattern
IsContinuation(line) == ~IsStartLine(line) /\ Strip(line) # << >>

\* the text of a message-start line after the sender
StartText(line) == LStrip(Strip(MatchLine(line).content), Marks)

\* the trimmed texts of lines from..to, each after one space
RECURSIVE Joined(_, _)
Joined(from, to) ==
    IF from > to THEN << >>
    ELSE << " " >> \o Strip(LineAt(from)) \o Joined(from + 1, to)

\* the lines read so far end with the valid message-start line p and
\* continuation lines only
StartWithContinuations(p) ==
    /\ IsValidStart(LineAt(p))
    /\ \A q \in (p + 1)..(pos - 1) : IsContinuation(LineAt(q))

\* C11: a valid message-start line followed by k continuation lines gives one
\* message whose content is the text of the start line followed by the k
\* trimmed lines in order, each after exactly one space; the continuation
\* lines make no message of their own and the message is returned once.
C11_ContinuationLinesMerge ==
    pc \in {"parse", "filter"} =>
        \A p \in 1..(pos - 1) :
            StartWithContinuations(p) =>
                /\ current_message # None
                /\ heap[current_message].content
                       = StartText(LineAt(p)) \o Joined(p + 1, pos - 1)
                /\ Len(heap) = Len(ValidStartDates(SubSeq(lines, 1, pos - 1)))
                /\ \A i \in 1..Len(messages) : messages[i] # current_message
                       \/ (pc = "filter" /\ i = Len(messages))
                /\ pc = "filter" =>
                       /\ messages # << >>
                       /\ messages[Len(messages)] = current_message

\* the file of ChatLine1 and two continuation lines was parsed into one
\* message: Hello everyone! see you soon image omitted
C11_Witness ==
    /\ ParseReturned
    /\ lines = << ChatLine1, PlainLine, OmittedLine >>
    /\ Len(messages) = 1
    /\ heap[messages[1]].content
           = StartText(ChatLine1) \o << " " >> \o PlainLine
               \o << " ", "i", "m", "a", "g", "e", " ",
                     "o", "m", "i", "t", "t", "e", "d" >>

(***************************************************************************)
(* filter_last_365_days on its own: the messages handed to it lie before,  *)
(* on and after the two bounds of the window.                              *)
(***************************************************************************)
FilterTimes ==
    {DateTime(2024, 11, 24, 23, 59, 59), DateTime(2024, 11, 25, 0, 0, 0),
     DateTime(2025, 6, 1, 12, 0, 0), DateTime(2025, 11, 25, 23, 59, 59),
     DateTime(2025, 11, 26, 0, 0, 0)}

FilterMessages == {NewMessage(t, Alice, Hello) : t \in FilterTimes}

InitFilter ==
    /\ pc = "filter"
    /\ lines = << >>
    /\ pos = 1
    /\ heap \in SeqsUpTo(FilterMessages, MaxMsgs)
    /\ messages = [i \in 1..Len(heap) |-> i]
    /\ current_message = Len(heap)
    /\ filtered = << >>
    /\ idx = 1
    /\ prev_message = None
    /\ stats = NewStats
    /\ output = Nothing
    /\ run = 1
    /\ first_output = Nothing

NextFilter == Filter

SpecFilter == InitFilter /\ [][NextFilter]_vars

\* a date as the number yyyymmdd and a time of day as the number hhmmss
DayNumber(dt) == dt.year * 10000 + dt.month * 100 + dt.day

TimeNumber(dt) == dt.hour * 10000 + dt.minute * 100 + dt.second

\* 2024-11-25 00:00:00 <= dt <= 2025-11-25 23:59:59
InClosedWindow(dt) ==
    /\ DayNumber(dt) >= 20241125
    /\ \/ DayNumber(dt) < 20251125
       \/ DayNumber(dt) = 20251125 /\ TimeNumber(dt) <= 235959

\* the positions of the messages of msgs that lie in the window
KeptPositions(msgs) == {i \in 1..Len(msgs) : InClosedWindow(msgs[i].date)}

\* the k-th of them
KeptPosition(msgs, k) ==
    CHOOSE i \in KeptPositions(msgs) :
        Cardinality({j \in KeptPositions(msgs) : j <= i}) = k

FilterReturned == pc \in {"stats", "dump", "done", "raised"}

\* C12: filter_last_365_days returns exactly the messages with
\* 2024-11-25 00:00:00 <= t <= 2025-11-25 23:59:59, both bounds included, in
\* the order of the input, none twice and none altered.
C12_FilterKeepsClosedWindow ==
    FilterReturned =>
        /\ Len(filtered) = Cardinality(KeptPositions(Returned(messages)))
        /\ \A k \in 1..Len(filtered) :
               filtered[k]
                   = Returned(messages)[KeptPosition(Returned(messages), k)]

\* of a message one second before the window, one on its first second and
\* one on its last second, the last two were returned
C12_Witness ==
    /\ FilterReturned
    /\ DatesOf(Returned(messages))
           = << DateTime(2025, 11, 25, 23, 59, 59),
                DateTime(2024, 11, 24, 23, 59, 59),
                DateTime(2024, 11, 25, 0, 0, 0) >>
    /\ DatesOf(filtered)
           = << DateTime(2025, 11, 25, 23, 59, 59),
                DateTime(2024, 11, 25, 0, 0, 0) >>

(***************************************************************************)
(* calculate_stats on longer lists of fewer messages: two senders, two     *)
(* days, two hours, a media message whose text holds what the counters of  *)
(* a text message count, and gaps of 10 and 20.5 minutes.                  *)
(***************************************************************************)
\* the greatest length of the lists of SpecDerived
MaxChat == 4

\* WHO OMITTED @BOB?! LOL HTTP://X <U+1F602>
LoudOmitted ==
    << "W","H","O"," ","O","M","I","T","T","E","D"," ","@","B","O","B","?","!"," ",
       "L","O","L"," ","H","T","T","P",":","/","/","X"," ","JOY" >>

DerivedMessages ==
    {NewMessage(DateTime(2024, 11, 25, 9, 0, 0), Alice, Hello),
     NewMessage(DateTime(2024, 11, 25, 9, 10, 0), Alice, Hello),
     NewMessage(DateTime(2024, 11, 26, 10, 0, 0), Alice, Hello),
     NewMessage(DateTime(2024, 11, 25, 9, 10, 0), Bob, Hello),
     NewMessage(DateTime(2024, 11, 25, 9, 30, 30), Bob, Hello),
     NewMessage(DateTime(2024, 11, 25, 9, 10, 0), Bob, LoudOmitted)}

InitDerived ==
    /\ pc = "stats"
    /\ lines = << >>
    /\ pos = 1
    /\ heap = << >>
    /\ messages = << >>
    /\ current_message = None
    /\ filtered \in SeqsUpTo(DerivedMessages, MaxChat)
    /\ idx = 1
    /\ prev_message = None
    /\ stats = NewStats
    /\ output = Nothing
    /\ run = 1
    /\ first_output = Nothing

NextDerived ==
    \/ StatsStep
    \/ Finalize

SpecDerived == InitDerived /\ [][NextDerived]_vars

\* the step in which calculate_stats computes the derived stats and returns
Finalizes == pc = "stats" /\ pc' = "dump"

\* v is n / d rounded to the nearest integer, an exact tie to the even one
IsRounded(v, n, d) ==
    LET off == IF v * d >= n THEN v * d - n ELSE n - v * d
    IN  2 * off < d \/ (2 * off = d /\ v % 2 = 0)

\* m is the least element of the non-empty list s
IsMinimum(m, s) ==
    (\E i \in 1..Len(s) : s[i] = m) /\ (\A i \in 1..Len(s) : m <= s[i])

\* C13: after finalization a person's avg_response and fastest_response are
\* both null exactly when the person collected no response-time sample; with
\* samples they are the mean and the minimum of the samples rounded to one
\* decimal, and fastest_response <= avg_response.
C13_ResponseSummary ==
    [][Finalizes =>
          \A k \in Keys(stats.by_person) :
              LET s     == SamplesOf(stats, k)
                  after == Get(stats'.by_person, k)
              IN  /\ (after.avg_response = Nothing) <=> (s = << >>)
                  /\ (after.fastest_response = Nothing) <=> (s = << >>)
                  /\ s # << >> =>
                         /\ IsRounded(after.avg_response[1],
                                      10 * SumSeq(s), 60 * Len(s))
                         /\ \E m \in {s[i] : i \in 1..Len(s)} :
                                /\ IsMinimum(m, s)
                                /\ IsRounded(after.fastest_response[1], 10 * m, 60)
                         /\ after.fastest_response[1] <= after.avg_response[1]
       ]_vars

\* Bob answered after 20.5 and then after 10 minutes and Alice never
\* answered: Bob's mean is 15.2 (15.25 rounded to even) and Bob's fastest
\* 10.0, Alice's are null
C13_Witness ==
    /\ pc = "dump"
    /\ Len(filtered) = 4
    /\ Keys(stats.by_person) = {Alice, Bob}
    /\ filtered[2].date = DateTime(2024, 11, 25, 9, 30, 30)
    /\ filtered[4].date = DateTime(2024, 11, 25, 9, 10, 0)
    /\ Get(stats.by_person, Bob).avg_response = Some(152)
    /\ Get(stats.by_person, Bob).fastest_response = Some(100)
    /\ Get(stats.by_person, Alice).avg_response = Nothing
    /\ Get(stats.by_person, Alice).fastest_response = Nothing

\* the step in which calculate_stats leaves its loop for good
LeavesLoop == pc = "stats" /\ pc' # "stats"

\* C14: after finalization a person whose messages are all media has
\* avg_chars = 0, and avg_chars, engagement_rate and media_ratio are computed
\* for every person record without a division by zero: every record holds
\* at least one message, and with a person record present the derived stats
\* are computed to the end.
C14_DegenerateDenominators ==
    [][LeavesLoop =>
          /\ stats.by_person # << >> => pc' = "dump"
          /\ pc' = "dump" =>
                 \A k \in Keys(stats.by_person) :
                     LET person == Get(stats.by_person, k)
                         after  == Get(stats'.by_person, k)
                         text   == person.messages - person.media
                     IN  /\ person.messages > 0
                         /\ text >= 0
                         /\ text = 0 => after.avg_chars = 0
                         /\ text > 0 =>
                                IsRounded(after.avg_chars, person.total_chars, text)
                         /\ IsRounded(after.engagement_rate,
                                      1000 * person.replied_to_count,
                                      person.messages)
                         /\ IsRounded(after.media_ratio,
                                      1000 * person.media, person.messages)
       ]_vars

\* Bob sent one media message and nothing else, Alice one text message:
\* Bob's avg_chars is 0 and media_ratio 100.0, Alice's avg_chars is 5
C14_Witness ==
    /\ pc = "dump"
    /\ Len(filtered) = 2
    /\ Keys(stats.by_person) = {Alice, Bob}
    /\ Get(stats.by_person, Bob).messages = 1
    /\ Get(stats.by_person, Bob).media = 1
    /\ Get(stats.by_person, Bob).avg_chars = 0
    /\ Get(stats.by_person, Bob).media_ratio = 1000
    /\ Get(stats.by_person, Alice).avg_chars = 5
    /\ Get(stats.by_person, Alice).media_ratio = 0

(***************************************************************************)
(* parse_chat on files of one message-start line, over every two-digit     *)
(* year and over every hour with and without a meridiem.                   *)
(***************************************************************************)
\* the decimal text of n in 0..99, two digits
TwoDigits(n) == << DigitSeq[(n \div 10) + 1], DigitSeq[(n % 10) + 1] >>

\* the decimal text of n in 0..99, without a leading zero
Decimal(n) == IF n < 10 THEN << DigitSeq[n + 1] >> ELSE TwoDigits(n)

\* [11/25/yy, 09:00:00 AM] Alice: Hi
YearLine(yy) ==
    << "[","1","1","/","2","5","/" >>
        \o TwoDigits(yy)
        \o << ","," ","0","9",":","0","0",":","0","0"," ","A","M","]"," ",
              "A","l","i","c","e",":"," ","H","i" >>

\* the meridiems of the lines: the text before the bracket and what it says
Meridiems ==
    {[text |-> << >>, says |-> "none"],
     [text |-> << " ", "A", "M" >>, says |-> "AM"],
     [text |-> << " ", "P", "M" >>, says |-> "PM"],
     [text |-> << " ", "a", "m" >>, says |-> "AM"],
     [text |-> << " ", "p", "M" >>, says |-> "PM"],
     [text |-> << "P", "M" >>, says |-> "PM"]}

ClockHours == 0..24

\* [11/25/24, h:15:00 AM] Alice: Hi, with the hour and the meridiem as given
ClockLine(hour_text, meridiem_text) ==
    << "[","1","1","/","2","5","/","2","4",","," " >>
        \o hour_text
        \o << ":","1","5",":","0","0" >>
        \o meridiem_text
        \o << "]"," ","A","l","i","c","e",":"," ","H","i" >>

FieldLines ==
    {YearLine(yy) : yy \in 0..99}
    \cup {ClockLine(TwoDigits(h), m.text) : h \in ClockHours, m \in Meridiems}
    \cup {ClockLine(Decimal(h), m.text) : h \in ClockHours, m \in Meridiems}

InitFields ==
    /\ pc = "parse"
    /\ lines \in {<< l >> : l \in FieldLines}
    /\ InitRun

NextFields ==
    \/ ParseLine
    \/ ParseReturn

SpecFields == InitFields /\ [][NextFields]_vars

\* C15: a two-digit year yy resolves to 2000 + yy when yy < 50 and to
\* 1900 + yy otherwise (24 -> 2024, 49 -> 2049, 50 -> 1950, 99 -> 1999).
C15_TwoDigitYearPivot ==
    ParseReturned =>
        \A yy \in 0..99 :
            lines = << YearLine(yy) >> =>
                /\ Len(messages) = 1
                /\ heap[messages[1]].date.year
                       = (IF yy < 50 THEN 2000 + yy ELSE 1900 + yy)
                /\ heap[messages[1]].date.month = 11
                /\ heap[messages[1]].date.day = 25

\* the line of the year 50 was parsed into a message of 1950
C15_Witness ==
    /\ ParseReturned
    /\ lines = << YearLine(50) >>
    /\ Len(messages) = 1
    /\ heap[messages[1]].date.year = 1950

\* the 24-hour hour that the claim gives to hour h with a meridiem
ClaimedHour(h, says) ==
    IF says = "PM" /\ h # 12 THEN h + 12
    ELSE IF says = "AM" /\ h = 12 THEN 0
    ELSE h

\* C16: the hour of an emitted message is h + 12 for PM and h # 12, 0 for AM
\* and h = 12, and h itself otherwise, also without a meridiem; a line whose
\* hour comes out above 23 emits nothing, so every emitted hour is in 0..23.
C16_HourConversion ==
    ParseReturned =>
        /\ \A i \in 1..Len(messages) : heap[messages[i]].date.hour \in 0..23
        /\ \A h \in ClockHours, m \in Meridiems :
               lines \in {<< ClockLine(TwoDigits(h), m.text) >>,
                          << ClockLine(Decimal(h), m.text) >>} =>
                   IF ClaimedHour(h, m.says) <= 23
                   THEN /\ Len(messages) = 1
                        /\ heap[messages[1]].date.hour = ClaimedHour(h, m.says)
                        /\ heap[messages[1]].date.minute = 15
                   ELSE messages = << >>

\* the line of 12:15:00 AM was parsed into a message of hour 0
C16_Witness ==
    /\ ParseReturned
    /\ lines = << ClockLine(TwoDigits(12), << " ", "A", "M" >>) >>
    /\ Len(messages) = 1
    /\ heap[messages[1]].date.hour = 0

(***************************************************************************)
(* The media flag.                                                         *)
(***************************************************************************)
\* C17: for every returned message, is_media is true if and only if the
\* final content of the message, merged continuation lines included,
\* contains 'omitted', whatever the case of its letters.
C17_MediaFlagMatchesFinalContent ==
    ParseReturned =>
        \A i \in 1..Len(messages) :
            heap[messages[i]].is_media
                <=> Contains(<< "o", "m", "i", "t", "t", "e", "d" >>,
                             Lower(heap[messages[i]].content))

(***************************************************************************)
(* Media messages.                                                         *)
(***************************************************************************)
\* the counters of a person record that only a text message may change
TextCounters(person) ==
    << person.total_chars, person.long_messages, person.short_messages,
       person.emojis, person.questions, person.exclamations,
       person.caps_messages, person.laughs, person.links, person.mentions >>

\* C18: a message with is_media true adds one to the media counter of its
\* person and to total_media, and leaves unchanged the global and the
\* per-person total_chars, the long, short, emoji, question, exclamation,
\* caps, laugh, link and mention counters, the word counts and the
\* longest_message record.
C18_MediaMessageFrame ==
    [][(TakesMessage /\ ~filtered[idx].is_system /\ filtered[idx].is_media) =>
          LET who == NormalizeName(filtered[idx].sender)
          IN  /\ stats'.total_media = stats.total_media + 1
              /\ Get(stats'.by_person, who).media
                     = PersonOf(stats, who).media + 1
              /\ stats'.total_chars = stats.total_chars
              /\ stats'.word_counts = stats.word_counts
              /\ stats'.longest_message = stats.longest_message
              /\ \A k \in Keys(stats'.by_person) :
                     TextCounters(Get(stats'.by_person, k))
                         = TextCounters(PersonOf(stats, k))
       ]_vars

\* Alice's text message and then Bob's media message, whose text holds a
\* question mark, a laugh, a link and a mention, went through the loop:
\* only Alice's five characters were counted
C18_Witness ==
    /\ pc = "stats"
    /\ idx = 3
    /\ Len(filtered) = 2
    /\ ~filtered[1].is_media
    /\ filtered[2].is_media /\ filtered[2].content = LoudOmitted
    /\ Keys(stats.by_person) = {Alice, Bob}
    /\ stats.total_media = 1
    /\ stats.total_chars = 5
    /\ Get(stats.by_person, Bob).media = 1
    /\ TextCounters(Get(stats.by_person, Bob)) = << 0, 0, 0, 0, 0, 0, 0, 0, 0, 0 >>
    /\ stats.longest_message.sender = Alice

(***************************************************************************)
(* Peaks.                                                                  *)
(***************************************************************************)
\* i is the lowest of the buckets 0..n of hist that hold its maximum
IsFirstPeak(i, hist, n) ==
    /\ i \in 0..n
    /\ \A j \in 0..n : hist[j] <= hist[i]
    /\ \A j \in 0..(i - 1) : hist[j] < hist[i]

\* C19: after finalization each person's peak_hour is the index of a bucket
\* holding the maximum of the person's hour histogram, the lowest such index
\* when several hold it, and peak_day is the same for the weekday histogram.
C19_PeakIsFirstMaximum ==
    [][Finalizes =>
          \A k \in Keys(stats.by_person) :
              LET person == Get(stats.by_person, k)
                  after  == Get(stats'.by_person, k)
              IN  /\ IsFirstPeak(after.peak_hour, person.by_hour, 23)
                  /\ IsFirstPeak(after.peak_day, person.by_day, 6)
                  /\ after.by_hour = person.by_hour
                  /\ after.by_day = person.by_day
       ]_vars

\* Alice wrote on Tuesday at 10 and then on Monday at 9, once each: the
\* peaks are the lower buckets, hour 9 and day 1, not the first ones filled
C19_Witness ==
    /\ pc = "dump"
    /\ Len(filtered) = 2
    /\ filtered[1].date = DateTime(2024, 11, 26, 10, 0, 0)
    /\ filtered[2].date = DateTime(2024, 11, 25, 9, 0, 0)
    /\ Keys(stats.by_person) = {Alice}
    /\ Get(stats.by_person, Alice).by_hour[9] = 1
    /\ Get(stats.by_person, Alice).by_hour[10] = 1
    /\ Get(stats.by_person, Alice).peak_hour = 9
    /\ Get(stats.by_person, Alice).by_day[1] = 1
    /\ Get(stats.by_person, Alice).by_day[2] = 1
    /\ Get(stats.by_person, Alice).peak_day = 1

(***************************************************************************)
(* The most active day.                                                    *)
(***************************************************************************)
\* the positions of the retained messages of calendar day d
PositionsOfDay(d) ==
    {i \in 1..Len(filtered) :
        ~filtered[i].is_system /\ DateKey(filtered[i].date) = d}

\* the calendar days of the retained messages
RetainedDays ==
    {DateKey(filtered[i].date) :
        i \in {j \in 1..Len(filtered) : ~filtered[j].is_system}}

\* the position at which day d is first met
FirstSeen(d) == CHOOSE i \in PositionsOfDay(d) : \A j \in PositionsOfDay(d) : i <= j

\* C20: with a retained message, most_active_day is a calendar day whose
\* count is the greatest number of retained messages of one day, and of the
\* days that share that number it is the one met first in the list, so the
\* choice follows from the list alone.
C20_MostActiveDayFirstWins ==
    (pc = "dump" /\ RetainedDays # {}) =>
        LET day == stats.most_active_day.date
        IN  /\ day \in RetainedDays
            /\ stats.most_active_day.count = Cardinality(PositionsOfDay(day))
            /\ \A d \in RetainedDays :
                   \/ Cardinality(PositionsOfDay(d)) < Cardinality(PositionsOfDay(day))
                   \/ /\ Cardinality(PositionsOfDay(d)) = Cardinality(PositionsOfDay(day))
                      /\ FirstSeen(day) <= FirstSeen(d)

\* one message of 2024-11-26 and then one of 2024-11-25: the two days share
\* the count 1 and the day met first, the later one, is the most active
C20_Witness ==
    /\ pc = "dump"
    /\ Len(filtered) = 2
    /\ filtered[1].date = DateTime(2024, 11, 26, 10, 0, 0)
    /\ filtered[2].date = DateTime(2024, 11, 25, 9, 0, 0)
    /\ stats.most_active_day.date = DateKey(DateTime(2024, 11, 26, 10, 0, 0))
    /\ stats.most_active_day.count = 1

(***************************************************************************)
(* Lines after a rejected message-start line.                              *)
(***************************************************************************)
\* the file ends with the valid message-start line p, a message-start line
\* whose date does not construct, and one or more continuation lines
RejectedThenContinuations(p) ==
    /\ p + 2 <= Len(lines)
    /\ IsValidStart(LineAt(p))
    /\ IsInvalidStart(LineAt(p + 1))
    /\ \A q \in (p + 2)..Len(lines) : IsContinuation(LineAt(q))

\* C21: the continuation lines that follow a rejected message-start line are
\* appended to the message that was pending before it, that message is in
\* the returned list once, with those fragments, and the text of the
\* rejected line is in no message.
C21_ContinuationAfterRejectedLine ==
    ParseReturned =>
        \A p \in 1..Len(lines) :
            RejectedThenContinuations(p) =>
                /\ current_message # None
                /\ heap[current_message].content
                       = StartText(LineAt(p)) \o Joined(p + 2, Len(lines))
                /\ Cardinality({i \in 1..Len(messages) :
                                   messages[i] = current_message}) = 1
                /\ \A i \in 1..Len(messages) :
                       ~Contains(StartText(LineAt(p + 1)),
                                 heap[messages[i]].content)

(***************************************************************************)
(* The gap of exactly two hours.                                           *)
(***************************************************************************)
\* the loop is about to take a retained message that comes exactly 120
\* minutes after the previous retained message
TakesMessageAfterTwoHours ==
    /\ TakesMessage
    /\ ~filtered[idx].is_system
    /\ PrevRetained(filtered, idx) # None
    /\ Elapsed(idx) = 120 * 60

\* C22, as claimed: a retained message that comes exactly 120 minutes after
\* the previous retained message adds one to its sender's
\* conversations_started.
C22_ExactlyTwoHoursStarts ==
    [][TakesMessageAfterTwoHours =>
          StartedOf(stats', NormalizeName(filtered[idx].sender))
              = StartedOf(stats, NormalizeName(filtered[idx].sender)) + 1
       ]_vars

\* C22, amended: a retained message that comes exactly 120 minutes after the
\* previous retained message leaves every conversations_started as it was;
\* the gap has to be longer than 120 minutes to count.
C22_ExactlyTwoHoursDoesNotStart ==
    [][TakesMessageAfterTwoHours =>
          \A p \in People : StartedOf(stats', p) = StartedOf(stats, p)
       ]_vars

\* Alice at 09:00 and Bob at 11:00 went through the loop and nobody started
\* a conversation
C22_Witness ==
    /\ pc = "stats"
    /\ idx = 3
    /\ Len(filtered) = 2
    /\ filtered[1].sender = Alice /\ filtered[1].date = DateTime(2024, 11, 25, 9, 0, 0)
    /\ filtered[2].sender = Bob /\ filtered[2].date = DateTime(2024, 11, 25, 11, 0, 0)
    /\ Get(stats.by_person, Bob).messages = 1
    /\ StartedOf(stats, Bob) = 0
    /\ StartedOf(stats, Alice) = 0

(***************************************************************************)
(* Invariants of the aggregation pass.                                     *)
(***************************************************************************)
\* C23: in every state of the pass and for every person,
\* replied_to_count <= messages, so the finalized engagement_rate lies
\* between 0 and 100 (between 0 and 1000 tenths).
C23_RepliedToAtMostMessages ==
    pc \in {"stats", "dump", "done"} =>
        \A i \in 1..Len(stats.by_person) :
            LET person == stats.by_person[i][2]
            IN  /\ 0 <= person.replied_to_count
                /\ person.replied_to_count <= person.messages
                /\ pc \in {"dump", "done"} =>
                       /\ 0 <= person.engagement_rate
                       /\ person.engagement_rate <= 1000

\* both of Alice's messages got a fast reply by Bob: her engagement_rate is
\* 100.0, the upper bound
C23_Witness ==
    /\ pc = "dump"
    /\ Len(filtered) = 4
    /\ Keys(stats.by_person) = {Alice, Bob}
    /\ Get(stats.by_person, Alice).messages = 2
    /\ Get(stats.by_person, Alice).replied_to_count = 2
    /\ Get(stats.by_person, Alice).engagement_rate = 1000
    /\ Get(stats.by_person, Bob).replied_to_count = 1
    /\ Get(stats.by_person, Bob).engagement_rate = 500

\* the sum of the buckets 0..n of a histogram
RECURSIVE SumHist(_, _)
SumHist(hist, n) == IF n < 0 THEN 0 ELSE hist[n] + SumHist(hist, n - 1)

\* the sum of the values of a dict
ValueSum(d) == SumSeq([i \in 1..Len(d) |-> d[i][2]])

\* C24: after every processed message the global counters mirror the
\* per-person ones: total_messages is the sum of the persons' messages and
\* the sum of by_hour, of by_day_of_week, of by_month and of daily_counts;
\* total_media is the sum of the persons' media and at most total_messages;
\* total_chars is the sum of the persons' total_chars; each person's by_hour
\* and by_day sum to the person's messages.
C24_GlobalCountersMirrorPersons ==
    pc = "stats" =>
        LET persons == [i \in 1..Len(stats.by_person) |-> stats.by_person[i][2]]
        IN  /\ stats.total_messages
                   = SumSeq([i \in 1..Len(persons) |-> persons[i].messages])
            /\ stats.total_messages = SumHist(stats.by_hour, 23)
            /\ stats.total_messages = SumHist(stats.by_day_of_week, 6)
            /\ stats.total_messages = ValueSum(stats.by_month)
            /\ stats.total_messages = ValueSum(stats.daily_counts)
            /\ stats.total_media
                   = SumSeq([i \in 1..Len(persons) |-> persons[i].media])
            /\ stats.total_media <= stats.total_messages
            /\ stats.total_chars
                   = SumSeq([i \in 1..Len(persons) |-> persons[i].total_chars])
            /\ \A i \in 1..Len(persons) :
                   /\ SumHist(persons[i].by_hour, 23) = persons[i].messages
                   /\ SumHist(persons[i].by_day, 6) = persons[i].messages

\* two text messages of Alice on two days and a media message of Bob went
\* through the loop
C24_Witness ==
    /\ pc = "stats"
    /\ idx = 4
    /\ Len(filtered) = 3
    /\ Keys(stats.by_person) = {Alice, Bob}
    /\ stats.total_messages = 3
    /\ stats.total_media = 1
    /\ stats.total_chars = 10
    /\ Get(stats.by_person, Alice).messages = 2
    /\ Get(stats.by_person, Bob).media = 1
    /\ Len(stats.daily_counts) = 2

(***************************************************************************)
(* calculate_stats on messages of one person under two spellings, and of   *)
(* another person, at two times.                                           *)
(***************************************************************************)
\* Aziz El Romancy
AzizPlain == << "A","z","i","z"," ","E","l"," ","R","o","m","a","n","c","y" >>

\* Aziz El Romancy<U+1F60D>
AzizHeart == << "A","z","i","z"," ","E","l"," ","R","o","m","a","n","c","y","HEART_EYES" >>

AliasMessages ==
    {NewMessage(t, s, Hello) :
        t \in {DateTime(2024, 11, 25, 9, 0, 0), DateTime(2024, 11, 25, 9, 10, 0)},
        s \in {AzizPlain, AzizHeart, Bob}}

InitAlias ==
    /\ pc = "stats"
    /\ lines = << >>
    /\ pos = 1
    /\ heap = << >>
    /\ messages = << >>
    /\ current_message = None
    /\ filtered \in SeqsUpTo(AliasMessages, MaxMsgs)
    /\ idx = 1
    /\ prev_message = None
    /\ stats = NewStats
    /\ output = Nothing
    /\ run = 1
    /\ first_output = Nothing

NextAlias ==
    \/ StatsStep
    \/ Finalize

SpecAlias == InitAlias /\ [][NextAlias]_vars

\* C25: when a retained message and the previous retained message have
\* senders that normalize to the same name, no response-time sample is
\* recorded and no replied_to_count is incremented.
C25_NoReplyToOneself ==
    [][(/\ TakesMessage
        /\ ~filtered[idx].is_system
        /\ PrevRetained(filtered, idx) # None
        /\ NormalizeName(filtered[PrevRetained(filtered, idx)].sender)
               = NormalizeName(filtered[idx].sender)) =>
          \A p \in People :
              /\ SamplesOf(stats', p) = SamplesOf(stats, p)
              /\ RepliedOf(stats', p) = RepliedOf(stats, p)
       ]_vars

\* C26: whenever a message adds one to the previous sender's
\* replied_to_count, the same message records a response-time sample for
\* its own sender, also when the two messages carry the same timestamp or
\* the later one an earlier timestamp.
C26_EveryReplyHasSample ==
    [][(TakesMessage /\ ~filtered[idx].is_system) =>
          ((\E p \in People : RepliedOf(stats', p) > RepliedOf(stats, p)) =>
               Len(SamplesOf(stats', NormalizeName(filtered[idx].sender)))
                   = Len(SamplesOf(stats, NormalizeName(filtered[idx].sender))) + 1)
       ]_vars

(***************************************************************************)
(* calculate_stats on messages that differ in their text.                  *)
(***************************************************************************)
\* 123456!
DigitsText == << "1","2","3","4","5","6","!" >>

\* LOL WOW!
LoudText == << "L","O","L"," ","W","O","W","!" >>

\* WOW!!
ShortLoudText == << "W","O","W","!","!" >>

\* Hi there
HiThere == << "H","i"," ","t","h","e","r","e" >>

\* a text one character longer than the preview
LongText == [i \in 1..151 |-> "x"]

ContentTime == DateTime(2024, 11, 25, 9, 0, 0)

ContentMessages ==
    {NewMessage(ContentTime, Alice, c) :
        c \in {Hello, DigitsText, LoudText, ShortLoudText}}
    \cup {NewMessage(ContentTime, Bob, HiThere),
          NewMessage(ContentTime, Bob, LongText),
          NewMessage(ContentTime, AzizHeart, LongText),
          NewMessage(ContentTime, Bob, LongText \o << " " >> \o MediaOmitted),
          NewMessage(ContentTime, FratSender, LongText)}

InitContent ==
    /\ pc = "stats"
    /\ lines = << >>
    /\ pos = 1
    /\ heap = << >>
    /\ messages = << >>
    /\ current_message = None
    /\ filtered \in SeqsUpTo(ContentMessages, MaxMsgs)
    /\ idx = 1
    /\ prev_message = None
    /\ stats = NewStats
    /\ output = Nothing
    /\ run = 1
    /\ first_output = Nothing

NextContent ==
    \/ StatsStep
    \/ Finalize

SpecContent == InitContent /\ [][NextContent]_vars

\* the positions before idx of the messages that reach the text branch
TextPositions ==
    {i \in 1..(idx - 1) : ~filtered[i].is_system /\ ~filtered[i].is_media}

\* the longest content length among the text messages taken so far
LongestLength ==
    IF TextPositions = {} THEN 0
    ELSE CHOOSE n \in {Len(filtered[i].content) : i \in TextPositions} :
             \A i \in TextPositions : Len(filtered[i].content) <= n

\* the first text message that has the longest length
FirstLongest ==
    CHOOSE i \in TextPositions :
        /\ Len(filtered[i].content) = LongestLength
        /\ \A j \in TextPositions :
               Len(filtered[j].content) = LongestLength => i <= j

\* the length and the sender of longest_message are those of the first
\* longest text message taken so far
LongestIsFirstMaximum ==
    /\ stats.longest_message.length = LongestLength
    /\ TextPositions # {} =>
           stats.longest_message.sender
               = NormalizeName(filtered[FirstLongest].sender)

\* C27: longest_message.length is the largest content length among the
\* non-media, non-system messages taken so far (0 if none), its sender the
\* normalized sender of the first message of that length, and its preview
\* the first 150 characters of that content.
C27_LongestMessageTruncated ==
    pc = "stats" =>
        /\ LongestIsFirstMaximum
        /\ TextPositions # {} =>
               stats.longest_message.preview
                   = SubSeq(filtered[FirstLongest].content, 1,
                            IF LongestLength < 150 THEN LongestLength
                            ELSE 150)

\* C27 amended: as above, and the preview is the content itself when it has
\* at most 150 characters, and otherwise its first 150 characters followed
\* by three full stops.
C27_LongestMessageEllipsis ==
    pc = "stats" =>
        /\ LongestIsFirstMaximum
        /\ TextPositions # {} =>
               stats.longest_message.preview
                   = IF LongestLength <= 150
                     THEN filtered[FirstLongest].content
                     ELSE SubSeq(filtered[FirstLongest].content, 1, 150)
                              \o << ".", ".", "." >>

\* a text of 8 characters, then a text of 151 characters under an alias of
\* Aziz, then Bob's text of 151 characters went through the loop: the record
\* names Aziz, and the preview has 153 characters
C27_Witness ==
    /\ pc = "stats"
    /\ idx = 4
    /\ Len(filtered) = 3
    /\ filtered[1].content = LoudText
    /\ filtered[2].sender = AzizHeart /\ filtered[2].content = LongText
    /\ filtered[3].sender = Bob /\ filtered[3].content = LongText
    /\ stats.longest_message.sender = << "A", "z", "i", "z" >>
    /\ stats.longest_message.length = 151
    /\ Len(stats.longest_message.preview) = 153

HasUppercase(s) == \E i \in 1..Len(s) : \E k \in 1..26 : UpperSeq[k] = s[i]

HasLowercase(s) == \E i \in 1..Len(s) : \E k \in 1..26 : LowerSeq[k] = s[i]

\* the caps_messages counter of person p, zero while p has no record
CapsOf(st, p) == PersonOf(st, p).caps_messages

\* the step on a text message adds one to its sender's caps_messages when
\* loud holds of the content and nothing otherwise
CapsCountedWhen(loud(_)) ==
    (TakesMessage /\ ~filtered[idx].is_system /\ ~filtered[idx].is_media) =>
        CapsOf(stats', NormalizeName(filtered[idx].sender))
            = CapsOf(stats, NormalizeName(filtered[idx].sender))
                  + (IF loud(filtered[idx].content) THEN 1 ELSE 0)

\* C28: a non-media message adds one to caps_messages exactly when its
\* content is longer than 5 characters and holds no lowercase letter, so
\* also when it is made of digits, punctuation or symbols only.
C28_CapsWithoutLowercase ==
    [][CapsCountedWhen(LAMBDA c : Len(c) > 5 /\ ~HasLowercase(c))]_vars

\* C28 amended: a non-media message adds one to caps_messages exactly when
\* its content is longer than 5 characters, holds at least one uppercase
\* letter and holds no lowercase letter; content made of digits, punctuation
\* or symbols only is not counted.
C28_CapsNeedUppercase ==
    [][CapsCountedWhen(LAMBDA c : /\ Len(c) > 5
                                  /\ HasUppercase(c)
                                  /\ ~HasLowercase(c))]_vars

\* Alice's "123456!", "LOL WOW!" and "WOW!!" went through the loop: only
\* the second one was counted
C28_Witness ==
    /\ pc = "stats"
    /\ idx = 4
    /\ Len(filtered) = 3
    /\ filtered[1].content = DigitsText
    /\ filtered[2].content = LoudText
    /\ filtered[3].content = ShortLoudText
    /\ Keys(stats.by_person) = {Alice}
    /\ Get(stats.by_person, Alice).messages = 3
    /\ Get(stats.by_person, Alice).caps_messages = 1

(***************************************************************************)
(* Lines that parse_chat passes over.                                      *)
(***************************************************************************)
\* every character of the line is whitespace: the empty line too
IsBlank(line) == \A i \in 1..Len(line) : IsSpace(line[i])

\* C29: in parse_chat a blank or whitespace-only line, and a line that does
\* not match the message-start pattern read while no message is pending,
\* change neither the output list nor the pending message.
C29_PassedOverLines ==
    [][(/\ ReadsLine
        /\ \/ IsBlank(CurrentLine)
           \/ ~IsStartLine(CurrentLine) /\ current_message = None) =>
          UNCHANGED << messages, current_message, heap >>
       ]_vars

\* "see you soon" was read with no message pending, then Alice's line, then
\* the line of two spaces: one message is pending with the text of Alice's
\* line alone, and the output list is still empty
C29_Witness ==
    /\ pc = "parse"
    /\ lines = << PlainLine, ChatLine1, SpaceLine >>
    /\ pos = 4
    /\ messages = << >>
    /\ current_message = 1
    /\ Len(heap) = 1
    /\ heap[1].content = StartText(ChatLine1)

(***************************************************************************)
(* generate_stats.py beside generate_stats_v2.py.  Its parse_chat and      *)
(* filter_last_365_days have the same statements; its name_map has one     *)
(* other key.                                                              *)
(***************************************************************************)
\* the key of generate_stats.py for the second spelling of Aziz: the name
\* and the characters U+F8FF, U+00FC, U+00F2, U+00E7
AzizMangled == AzizPlain \o << "U+F8FF", "U+00FC", "U+00F2", "U+00E7" >>

\* name_map of generate_stats.py
name_map_v1 ==
    [i \in 1..Len(name_map) |->
        IF name_map[i][1] = AzizHeart
        THEN << AzizMangled, name_map[i][2] >>
        ELSE name_map[i]]

\* normalize_name of generate_stats.py
NormalizeNameV1(name) ==
    IF Has(name_map_v1, name) THEN Get(name_map_v1, name) ELSE name

\* the keys of by_person that calculate_stats of generate_stats.py makes
PeopleV1(msgs) ==
    {NormalizeNameV1(msgs[i].sender) :
        i \in {j \in 1..Len(msgs) : ~msgs[j].is_system}}

\* person['messages'] of generate_stats.py for the key p
MessagesV1(msgs, p) ==
    Cardinality({i \in 1..Len(msgs) :
                    ~msgs[i].is_system /\ NormalizeNameV1(msgs[i].sender) = p})

\* C30: calculate_stats of generate_stats.py and of generate_stats_v2.py
\* return the same persons with the same message counts.
C30_VersionsAgreeOnPersons ==
    pc = "dump" =>
        /\ PeopleV1(filtered) = Keys(stats.by_person)
        /\ \A p \in Keys(stats.by_person) :
               MessagesV1(filtered, p) = Get(stats.by_person, p).messages

=============================================================================
